---- MODULE Spec2Model ----
(***************************************************************************)
(* Model of the pini-fast backend: the SQLite-backed entity store          *)
(* (DatabaseService), the user, role and product services, the JWT auth    *)
(* service, the auth middleware (createAuthMiddleware / requireAuth /      *)
(* requireRoles) and the route tables of the controllers.                  *)
(*                                                                         *)
(* Every HTTP request is one action: the preHandler chain of the route,    *)
(* then the handler with every service and store call it makes.            *)
(* The store is the persistent SQLite file opened by the DatabaseService   *)
(* constructor; Init is that file as left by an earlier run of the server  *)
(* (bootstrap roles, an administrator and one registered user).  Rows      *)
(* carry the columns the modelled operations read or write; createdAt and  *)
(* updatedAt are written by every insert and update and read by none of    *)
(* the modelled operations.                                                *)
(***************************************************************************)
EXTENDS Integers, Sequences, FiniteSets, TLC

VARIABLES users, roles, user_roles, products, files, disk, tokens, now, last, creating

vars == <<users, roles, user_roles, products, files, disk, tokens, now, last, creating>>

----------------------------------------------------------------------------
(* Bounds *)

\* the clock runs from 1 to MaxTime
MaxTime == 2
\* number of distinct signed tokens kept in flight
MaxTokens == 2
\* files the uploads directory holds
MaxFiles == 2
\* identifiers available to rows inserted into one table
MaxRows == 3

----------------------------------------------------------------------------
(* Strings, String.prototype.toLowerCase, String.prototype.includes('@') *)

toLowerCase(s) ==
  CASE s = "A@x"   -> "a@x"
    [] s = "Admin" -> "admin"
    [] s = "User"  -> "user"
    [] s = ".PNG"  -> ".png"
    [] OTHER       -> s

includesAt(s) == s \in {"a@x", "b@x", "c@x", "A@x"}

\* a JavaScript value used as a condition: undefined and "" are falsy
Truthy(s) == s # ""

Min(S) == CHOOSE x \in S : \A y \in S : x <= y

----------------------------------------------------------------------------
(* HttpError classes and the error handler's view of an error *)

Err(code, msg) == [code |-> code, msg |-> msg]

ValidationError(msg)   == Err(400, msg)
UnauthorizedError(msg) == Err(401, msg)
\* super(404, `${resource} not found`)
NotFoundError(resource) == Err(404, resource \o " not found")
\* an error without statusCode: createErrorHandler answers 500
StorageError(msg)      == Err(500, msg)

OK      == Err(200, "ok")
Created == Err(201, "ok")

IsOk(e) == e.code \in {200, 201}

\* new ErrorResponse(error, statusCode, message): the envelope of an error reply
ErrorResponse(error, statusCode, message) ==
  [success |-> FALSE, error |-> error, statusCode |-> statusCode, message |-> message]

\* the handler createErrorHandler returns, applied to a thrown error; an error
\* without statusCode is one of status 500 here
createErrorHandler(error) ==
  LET statusCode == IF error.code = 0 THEN 500 ELSE error.code
      message == IF error.msg = "" THEN "Internal Server Error" ELSE error.msg
  IN ErrorResponse(message, statusCode,
                   IF statusCode >= 500 THEN "Internal Server Error" ELSE message)

----------------------------------------------------------------------------
(* DatabaseService: generic CRUD over the tables of createTables.  A db is *)
(* the record of the four tables; an operation answers [err, db, out].     *)

DB == [users |-> users, roles |-> roles, user_roles |-> user_roles, products |-> products,
       files |-> files, disk |-> disk]

Res(err, db, out) == [err |-> err, db |-> db, out |-> out]

\* the columns of each CREATE TABLE
Columns(collection) ==
  CASE collection = "users" ->
         {"id", "email", "firstName", "lastName", "passwordHash", "isActive",
          "lastLogin", "createdAt", "updatedAt"}
    [] collection = "roles" ->
         {"id", "name", "description", "createdAt", "updatedAt"}
    [] collection = "user_roles" ->
         {"id", "userId", "roleId", "assignedAt", "assignedBy", "createdAt", "updatedAt"}
    [] collection = "products" ->
         {"id", "name", "description", "price", "category", "sku", "inStock",
          "stockQuantity", "imageUrl", "createdAt", "updatedAt"}
    [] collection = "files" ->
         {"id", "originalName", "filename", "mimeType", "size", "path", "uploadedBy",
          "createdAt", "updatedAt"}

\* the UNIQUE constraints of each CREATE TABLE (BINARY collation: exact match);
\* no PRAGMA foreign_keys is issued, so the FOREIGN KEY clauses are not enforced
UniqueKeys(collection) ==
  CASE collection = "users"      -> {{"email"}}
    [] collection = "roles"      -> {{"name"}}
    [] collection = "user_roles" -> {{"userId", "roleId"}}
    [] collection = "products"   -> {{"sku"}}
    [] collection = "files"      -> {}

\* a table that declares no UNIQUE constraint
ViolatesUnique_never(rows, collection, r) == FALSE

\* would row r break a UNIQUE constraint against the other rows of the table
ViolatesUnique(rows, collection, r) ==
  \E key \in UniqueKeys(collection) : \E o \in rows :
     /\ o.id # r.id
     /\ key \subseteq DOMAIN r
     /\ \A k \in key : o[k] = r[k]

NoSuchColumn == StorageError("SQLITE_ERROR: no such column")
ConstraintFailed == StorageError("SQLITE_CONSTRAINT: UNIQUE constraint failed")

Matches(rows, query) == {r \in rows : \A k \in DOMAIN query : r[k] = query[k]}

findAll(db, collection) == db[collection]

\* SELECT * WHERE id = ?: the set holding the row, or {} for null
findById(db, collection, id) == {r \in db[collection] : r.id = id}

\* SELECT * WHERE k1 = ? AND ... LIMIT 1: out is the set holding the row, or {}
findOne(db, collection, query) ==
  IF ~(DOMAIN query \subseteq Columns(collection))
  THEN Res(NoSuchColumn, db, {})
  ELSE LET m == Matches(db[collection], query)
       IN Res(OK, db, IF m = {} THEN {} ELSE {CHOOSE r \in m : TRUE})

findByQuery(db, collection, query) ==
  IF ~(DOMAIN query \subseteq Columns(collection))
  THEN Res(NoSuchColumn, db, {})
  ELSE Res(OK, db, Matches(db[collection], query))

\* Math.random().toString(36) + Date.now().toString(36): an identifier no row
\* of the table carries
IdPool == 1..MaxRows
CanGenerateId(rows) == IdPool \ {r.id : r \in rows} # {}
generateId(rows) == IF CanGenerateId(rows) THEN Min(IdPool \ {r.id : r \in rows}) ELSE 0

\* the columns a row of the model carries (the others are written and never
\* read by the modelled operations) and the value of a column an INSERT leaves out
Tracked(collection) ==
  CASE collection = "users"      -> {"id", "email", "passwordHash", "isActive", "lastLogin"}
    [] collection = "roles"      -> {"id", "name"}
    [] collection = "user_roles" -> {"id", "userId", "roleId", "assignedBy"}
    [] collection = "products"   -> {"id", "sku", "stockQuantity", "inStock"}
    [] collection = "files"      -> {"id", "filename", "mimeType", "size", "uploadedBy"}

ColumnDefault(column) ==
  CASE column \in {"isActive", "inStock"} -> TRUE
    [] column \in {"lastLogin", "stockQuantity", "uploadedBy"} -> 0
    [] OTHER -> ""

\* the NOT NULL columns without DEFAULT that the caller has to bind (id,
\* createdAt and updatedAt are bound by create itself); a key whose value is
\* undefined is bound as NULL, and is left out of the data here
NotNull(collection) ==
  CASE collection = "users"      -> {"email", "firstName", "lastName", "passwordHash"}
    [] collection = "roles"      -> {"name", "description"}
    [] collection = "user_roles" -> {"userId", "roleId", "assignedAt", "assignedBy"}
    [] collection = "products"   -> {"name", "price", "category", "sku"}
    [] collection = "files"      -> {"originalName", "filename", "mimeType", "size", "path"}

NotNullFailed == StorageError("SQLITE_CONSTRAINT: NOT NULL constraint failed")

\* INSERT: out is the new item
create(db, collection, data) ==
  LET id == generateId(db[collection])
      newItem == [k \in Tracked(collection) |->
                    IF k = "id" THEN id
                    ELSE IF k \in DOMAIN data THEN data[k] ELSE ColumnDefault(k)]
  IN IF ~(DOMAIN data \subseteq Columns(collection))
     THEN Res(NoSuchColumn, db, {})
     ELSE IF ~(NotNull(collection) \subseteq DOMAIN data)
     THEN Res(NotNullFailed, db, {})
     ELSE IF ViolatesUnique(db[collection], collection, newItem)
     THEN Res(ConstraintFailed, db, {})
     ELSE Res(OK, [db EXCEPT ![collection] = @ \cup {newItem}], newItem)

Merge(row, data) == [k \in DOMAIN row |-> IF k \in DOMAIN data THEN data[k] ELSE row[k]]

\* UPDATE ... WHERE id = ?, then findById: out is the set holding the updated row, or {}
update(db, collection, id, data) ==
  IF ~(DOMAIN data \subseteq Columns(collection))
  THEN Res(NoSuchColumn, db, {})
  ELSE LET old == findById(db, collection, id)
           new == {Merge(r, data) : r \in old}
       IN IF \E r \in new : ViolatesUnique(db[collection], collection, r)
          THEN Res(ConstraintFailed, db, {})
          ELSE Res(OK, [db EXCEPT ![collection] = (@ \ old) \cup new], new)

\* DELETE ... WHERE id = ?.  The answer is `(this.db as any).changes > 0`: the
\* Database handle carries no `changes` property (sqlite3 reports it on the
\* statement, the callback's `this`), so the comparison is `undefined > 0`
delete(db, collection, id) ==
  Res(OK, [db EXCEPT ![collection] = {r \in @ : r.id # id}], FALSE)

----------------------------------------------------------------------------
(* DatabaseService: the JavaScript values create resolves with and findById *)
(* reads back.  A value has a kind; s is its text and n its number or its   *)
(* instant; the text of an ISO date string is "iso" with the instant in n   *)

Value(kind, s, n) == [kind |-> kind, s |-> s, n |-> n]
Str(s)    == Value("string", s, 0)
Num(n)    == Value("number", "", n)
Bool(b)   == Value("boolean", "", IF b THEN 1 ELSE 0)
DateAt(t) == Value("date", "", t)
Null      == Value("null", "", 0)

\* Date.prototype.toISOString and new Date(text)
toISOString(d) == Value("string", "iso", d.n)
NewDate(x) == IF x.kind = "string" /\ x.s = "iso" THEN DateAt(x.n) ELSE Value("date", "invalid", 0)

\* Boolean(x) and the truthiness test `if (x)`
Boolean(x) ==
  Bool(CASE x.kind \in {"number", "boolean"} -> x.n # 0
         [] x.kind = "string" -> x.s # ""
         [] x.kind = "date"   -> TRUE
         [] OTHER             -> FALSE)

serializeValue(value) ==
  IF value.kind = "boolean" THEN Num(value.n)
  ELSE IF value.kind = "date" THEN toISOString(value)
  ELSE value

deserializeRow(row) ==
  [key \in DOMAIN row |->
     IF key \in {"isActive", "inStock"} THEN Boolean(row[key])
     ELSE IF key \in {"createdAt", "updatedAt", "lastLogin"} /\ Boolean(row[key]) = Bool(TRUE)
     THEN NewDate(row[key])
     ELSE row[key]]

\* the object DatabaseService.create builds, binds to the INSERT and resolves with
NewItem(data, id, t) ==
  [k \in DOMAIN data \cup {"id", "createdAt", "updatedAt"} |->
     IF k = "id" THEN id
     ELSE IF k \in {"createdAt", "updatedAt"} THEN toISOString(DateAt(t))
     ELSE data[k]]

\* the row the INSERT leaves: each bound value serialised, NULL for a column
\* that is not bound (the data the services pass bind every DEFAULT column)
InsertedRow(collection, item) ==
  [k \in Columns(collection) |-> IF k \in DOMAIN item THEN serializeValue(item[k]) ELSE Null]

\* what findById resolves with for that row
FoundById(collection, item) == deserializeRow(InsertedRow(collection, item))

----------------------------------------------------------------------------
(* UserService *)

\* bcrypt.hash / bcrypt.compare: one-way, and compare succeeds on the hashed password only
Hash(password) == <<"bcrypt", password>>
Compare(password, passwordHash) == passwordHash = Hash(password)

Has(dto, k) == k \in DOMAIN dto

\* a projection that hands the stored row back whole
toPublicUser_keeping_hash(user) == user

toPublicUser(user) == [k \in DOMAIN user \ {"passwordHash"} |-> user[k]]

\* users.map(this.toPublicUser)
UserService_findAll(db) == {toPublicUser(u) : u \in findAll(db, "users")}

\* the public user in a set, or {} for null; a falsy id (0) is refused
UserService_findById(db, id) ==
  IF id = 0 THEN Res(ValidationError("User ID is required"), db, {})
  ELSE Res(OK, db, {toPublicUser(u) : u \in findById(db, "users", id)})

findByEmail(db, email) ==
  IF ~Truthy(email)
  THEN Res(ValidationError("Email is required"), db, {})
  ELSE findOne(db, "users", [email |-> email])

findByUsername(db, username) ==
  IF ~Truthy(username)
  THEN Res(ValidationError("Username is required"), db, {})
  ELSE findOne(db, "users", [username |-> username])

\* UserService.create; dto.username is "" when the caller passes none
UserService_create(db, dto) ==
  LET byEmail == findByEmail(db, dto.email)
      byUsername == findByUsername(db, dto.username)
      userData == [email        |-> toLowerCase(dto.email),
                   username     |-> dto.username,
                   firstName    |-> "first",
                   lastName     |-> "last",
                   passwordHash |-> Hash(dto.password),
                   isActive     |-> TRUE]
      made == create(db, "users", userData)
  IN IF ~IsOk(byEmail.err) THEN byEmail
     ELSE IF byEmail.out # {}
     THEN Res(ValidationError("User with this email already exists"), db, {})
     ELSE IF ~IsOk(byUsername.err) THEN byUsername
     ELSE IF byUsername.out # {}
     THEN Res(ValidationError("User with this username already exists"), db, {})
     ELSE IF ~IsOk(made.err) THEN made
     ELSE Res(Created, made.db, toPublicUser(made.out))

\* UserService.update; dto is a function on the fields the request supplies
UserService_update(db, id, dto) ==
  LET existing == findById(db, "users", id)
      existingUser == CHOOSE u \in existing : TRUE
      checksEmail == Has(dto, "email") /\ Truthy(dto.email) /\ dto.email # existingUser.email
      emailConflict == findByEmail(db, dto.email)
      checksUsername == Has(dto, "username") /\ Truthy(dto.username)
      usernameConflict == findByUsername(db, dto.username)
      copied == [k \in (DOMAIN dto) \cap {"email", "username", "firstName", "lastName", "isActive"}
                   |-> IF k = "email" /\ Truthy(dto.email) THEN toLowerCase(dto.email) ELSE dto[k]]
      hashed == IF Has(dto, "password") /\ Truthy(dto.password)
                THEN [k \in {"passwordHash"} |-> Hash(dto.password)]
                ELSE <<>>
      updateData == [k \in DOMAIN copied \cup DOMAIN hashed |->
                       IF k \in DOMAIN copied THEN copied[k] ELSE hashed[k]]
      updated == update(db, "users", id, updateData)
  IN IF existing = {} THEN Res(NotFoundError("User"), db, {})
     ELSE IF checksEmail /\ ~IsOk(emailConflict.err) THEN emailConflict
     ELSE IF checksEmail /\ \E c \in emailConflict.out : c.id # id
     THEN Res(ValidationError("User with this email already exists"), db, {})
     ELSE IF checksUsername /\ ~IsOk(usernameConflict.err) THEN usernameConflict
     ELSE IF checksUsername /\ \E c \in usernameConflict.out : c.id # id
     THEN Res(ValidationError("User with this username already exists"), db, {})
     ELSE IF ~IsOk(updated.err) THEN updated
     ELSE IF updated.out = {} THEN Res(NotFoundError("User"), db, {})
     ELSE Res(OK, updated.db, {toPublicUser(u) : u \in updated.out})

\* a delete that takes the user's uploads along
UserService_delete_cascading(db, id) ==
  IF findById(db, "users", id) = {}
  THEN Res(NotFoundError("User"), db, FALSE)
  ELSE delete([db EXCEPT !.files = {f \in @ : f.uploadedBy # id}], "users", id)

\* UserService.delete: out is the boolean DatabaseService.delete answers
UserService_delete(db, id) ==
  IF findById(db, "users", id) = {}
  THEN Res(NotFoundError("User"), db, FALSE)
  ELSE delete(db, "users", id)

validatePassword(user, password) == Compare(password, user.passwordHash)

\* `new Date()` is the clock t
updateLastLogin(db, id, t) == update(db, "users", id, [lastLogin |-> t])

----------------------------------------------------------------------------
(* RoleService *)

toPublicRole(role) == [id |-> role.id, name |-> role.name]

findRoleByName(db, name) ==
  IF ~Truthy(name)
  THEN Res(ValidationError("Role name is required"), db, {})
  ELSE findOne(db, "roles", [name |-> name])

\* `Role with name '${name}' already exists`
RoleExists(name) == "Role with name '" \o name \o "' already exists"

createRole(db, name) ==
  LET existingRole == findRoleByName(db, name)
      made == create(db, "roles", [name |-> toLowerCase(name), description |-> "text"])
  IN IF ~IsOk(existingRole.err) THEN existingRole
     ELSE IF existingRole.out # {}
     THEN Res(ValidationError(RoleExists(name)), db, {})
     ELSE IF ~IsOk(made.err) THEN made
     ELSE Res(Created, made.db, toPublicRole(made.out))

\* updateRole(id, name, description) with name "" for undefined and no description
updateRole(db, id, name) ==
  LET existing == findById(db, "roles", id)
      existingRole == CHOOSE r \in existing : TRUE
      checksName == Truthy(name) /\ name # existingRole.name
      nameConflict == findRoleByName(db, name)
      updateData == IF name # "" THEN [k \in {"name"} |-> toLowerCase(name)] ELSE <<>>
      updated == update(db, "roles", id, updateData)
  IN IF existing = {} THEN Res(NotFoundError("Role"), db, {})
     ELSE IF checksName /\ ~IsOk(nameConflict.err) THEN nameConflict
     ELSE IF checksName /\ \E c \in nameConflict.out : c.id # id
     THEN Res(ValidationError(RoleExists(name)), db, {})
     ELSE IF ~IsOk(updated.err) THEN updated
     ELSE IF updated.out = {} THEN Res(NotFoundError("Role"), db, {})
     ELSE Res(OK, updated.db, {toPublicRole(r) : r \in updated.out})

\* `Cannot delete role '${role.name}' as it is assigned to ${userRoles.length} user(s)`
RoleInUse(name, count) ==
  "Cannot delete role '" \o name \o "' as it is assigned to " \o ToString(count) \o " user(s)"

\* deleteRole leaving the references to the storage layer
deleteRole_without_assignment_check(db, id) ==
  IF findById(db, "roles", id) = {}
  THEN Res(NotFoundError("Role"), db, FALSE)
  ELSE delete(db, "roles", id)

deleteRole(db, id) ==
  LET found == findById(db, "roles", id)
      role == CHOOSE r \in found : TRUE
      userRoles == findByQuery(db, "user_roles", [roleId |-> id])
  IN IF found = {}
     THEN Res(NotFoundError("Role"), db, FALSE)
     ELSE IF ~IsOk(userRoles.err) THEN userRoles
     ELSE IF Cardinality(userRoles.out) > 0
     THEN Res(ValidationError(RoleInUse(role.name, Cardinality(userRoles.out))), db, FALSE)
     ELSE delete(db, "roles", id)

\* `Role '${role.name}' is already assigned to this user`
AlreadyAssigned(name) == "Role '" \o name \o "' is already assigned to this user"

\* assignRoleToUser relying on UNIQUE(userId, roleId) alone
assignRoleToUser_without_existing_check(db, userId, roleId, assignedBy) ==
  LET role == findById(db, "roles", roleId)
      existingAssignment == findOne(db, "user_roles", [userId |-> userId, roleId |-> roleId])
      made == create(db, "user_roles",
                     [userId |-> userId, roleId |-> roleId, assignedAt |-> "now",
                      assignedBy |-> assignedBy])
  IN IF userId = 0 \/ roleId = 0 \/ assignedBy = 0
     THEN Res(ValidationError("User ID, Role ID, and Assigned By are required"), db, {})
     ELSE IF findById(db, "users", userId) = {}
     THEN Res(NotFoundError("User"), db, {})
     ELSE IF role = {}
     THEN Res(NotFoundError("Role"), db, {})
     ELSE IF findById(db, "users", assignedBy) = {}
     THEN Res(NotFoundError("Assigner user"), db, {})
     ELSE IF ~IsOk(made.err) THEN made
     ELSE Res(Created, made.db, made.out)

\* assignRoleToUser trusting the caller's identifier
assignRoleToUser_without_assigner_check(db, userId, roleId, assignedBy) ==
  LET role == findById(db, "roles", roleId)
      existingAssignment == findOne(db, "user_roles", [userId |-> userId, roleId |-> roleId])
      made == create(db, "user_roles",
                     [userId |-> userId, roleId |-> roleId, assignedAt |-> "now",
                      assignedBy |-> assignedBy])
  IN IF userId = 0 \/ roleId = 0 \/ assignedBy = 0
     THEN Res(ValidationError("User ID, Role ID, and Assigned By are required"), db, {})
     ELSE IF findById(db, "users", userId) = {}
     THEN Res(NotFoundError("User"), db, {})
     ELSE IF role = {}
     THEN Res(NotFoundError("Role"), db, {})
     ELSE IF ~IsOk(existingAssignment.err) THEN existingAssignment
     ELSE IF existingAssignment.out # {}
     THEN Res(ValidationError(AlreadyAssigned((CHOOSE r \in role : TRUE).name)), db, {})
     ELSE IF ~IsOk(made.err) THEN made
     ELSE Res(Created, made.db, made.out)

\* an identifier of 0 stands for a missing (falsy) one
assignRoleToUser(db, userId, roleId, assignedBy) ==
  LET role == findById(db, "roles", roleId)
      existingAssignment == findOne(db, "user_roles", [userId |-> userId, roleId |-> roleId])
      made == create(db, "user_roles",
                     [userId |-> userId, roleId |-> roleId, assignedAt |-> "now",
                      assignedBy |-> assignedBy])
  IN IF userId = 0 \/ roleId = 0 \/ assignedBy = 0
     THEN Res(ValidationError("User ID, Role ID, and Assigned By are required"), db, {})
     ELSE IF findById(db, "users", userId) = {}
     THEN Res(NotFoundError("User"), db, {})
     ELSE IF role = {}
     THEN Res(NotFoundError("Role"), db, {})
     ELSE IF findById(db, "users", assignedBy) = {}
     THEN Res(NotFoundError("Assigner user"), db, {})
     ELSE IF ~IsOk(existingAssignment.err) THEN existingAssignment
     ELSE IF existingAssignment.out # {}
     THEN Res(ValidationError(AlreadyAssigned((CHOOSE r \in role : TRUE).name)), db, {})
     ELSE IF ~IsOk(made.err) THEN made
     ELSE Res(Created, made.db, made.out)

\* out is the boolean DatabaseService.delete answers
removeRoleFromUser(db, userId, roleId) ==
  LET userRole == findOne(db, "user_roles", [userId |-> userId, roleId |-> roleId])
  IN IF ~IsOk(userRole.err) THEN Res(userRole.err, db, FALSE)
     ELSE IF userRole.out = {}
     THEN Res(NotFoundError("Role assignment"), db, FALSE)
     ELSE delete(db, "user_roles", (CHOOSE r \in userRole.out : TRUE).id)

\* the roles of the user's assignments that still exist
getUserRoles(db, userId) ==
  LET userRoles == Matches(db.user_roles, [userId |-> userId])
  IN {toPublicRole(r) : r \in {x \in db.roles : \E ur \in userRoles : ur.roleId = x.id}}

\* the user's listed fields with the roles, in a set, or {} for null
getUserWithRoles(db, userId) ==
  IF userId = 0 THEN Res(ValidationError("User ID is required"), db, {})
  ELSE Res(OK, db, {[id        |-> user.id,
                     email     |-> user.email,
                     isActive  |-> user.isActive,
                     lastLogin |-> user.lastLogin,
                     roles     |-> getUserRoles(db, userId)]
                      : user \in findById(db, "users", userId)})

\* `const { passwordHash, ...publicUser } = user` for each assignment of the
\* role whose user still exists
getUsersByRole(db, roleId) ==
  IF roleId = 0 THEN Res(ValidationError("Role ID is required"), db, {})
  ELSE LET userRoles == Matches(db.user_roles, [roleId |-> roleId])
       IN Res(OK, db, {[k \in DOMAIN user \ {"passwordHash"} |-> user[k]]
                        : user \in {u \in db.users : \E ur \in userRoles : ur.userId = u.id}})

userHasRole(db, userId, roleName) ==
  LET role == findRoleByName(db, toLowerCase(roleName))
  IN /\ userId # 0
     /\ Truthy(roleName)
     /\ role.out # {}
     /\ \E r \in role.out :
          findOne(db, "user_roles", [userId |-> userId, roleId |-> r.id]).out # {}

----------------------------------------------------------------------------
(* DatabaseInitService: what AppService.start runs before the server listens *)

DefaultRoles == <<"admin", "user", "moderator">>

\* configService.get('adminPassword')
AdminPassword == "secret1"

\* the loop of initializeRoles over the default roles still to handle; a role
\* created before a later step throws stays in the table
RECURSIVE initializeRolesFrom(_, _)
initializeRolesFrom(db, names) ==
  IF names = <<>> THEN Res(OK, db, {})
  ELSE LET existingRole == findRoleByName(db, Head(names))
           made == createRole(db, Head(names))
       IN IF ~IsOk(existingRole.err) THEN existingRole
          ELSE IF existingRole.out # {} THEN initializeRolesFrom(db, Tail(names))
          ELSE IF ~IsOk(made.err) THEN Res(made.err, db, {})
          ELSE initializeRolesFrom(made.db, Tail(names))

initializeRoles(db) == initializeRolesFrom(db, DefaultRoles)

\* the create call passes email, firstName, lastName and password: no username
initializeAdminUser(db, adminEmail) ==
  LET existingAdmin == findByEmail(db, adminEmail)
      adminRole == findRoleByName(db, "admin")
      roleId == (CHOOSE r \in adminRole.out : TRUE).id
      existingId == (CHOOSE u \in existingAdmin.out : TRUE).id
      assignedExisting == assignRoleToUser(db, existingId, roleId, existingId)
      adminUser == UserService_create(db, [email |-> adminEmail, username |-> "",
                                           password |-> AdminPassword])
      roleAfter == findRoleByName(adminUser.db, "admin")
      roleIdAfter == (CHOOSE r \in roleAfter.out : TRUE).id
      assignedNew == assignRoleToUser(adminUser.db, adminUser.out.id, roleIdAfter,
                                      adminUser.out.id)
  IN IF ~IsOk(existingAdmin.err) THEN existingAdmin
     ELSE IF existingAdmin.out # {}
     THEN IF userHasRole(db, existingId, "admin") THEN Res(OK, db, {})
          ELSE IF ~IsOk(adminRole.err) THEN adminRole
          ELSE IF adminRole.out = {} THEN Res(OK, db, {})
          ELSE IF ~IsOk(assignedExisting.err) THEN Res(assignedExisting.err, db, {})
          ELSE Res(OK, assignedExisting.db, {})
     ELSE IF ~IsOk(adminUser.err) THEN Res(adminUser.err, db, {})
     ELSE IF ~IsOk(roleAfter.err) THEN Res(roleAfter.err, adminUser.db, {})
     ELSE IF roleAfter.out = {}
     THEN Res(StorageError("Admin role not found"), adminUser.db, {})
     ELSE IF ~IsOk(assignedNew.err) THEN Res(assignedNew.err, adminUser.db, {})
     ELSE Res(OK, assignedNew.db, {})

\* initialize: err is OK when it returns and the error it rethrows otherwise
initialize(db, adminEmail, enableAdminBootstrap) ==
  LET rolesDone == initializeRoles(db)
  IN IF ~IsOk(rolesDone.err) THEN rolesDone
     ELSE IF enableAdminBootstrap THEN initializeAdminUser(rolesDone.db, adminEmail)
     ELSE rolesDone

----------------------------------------------------------------------------
(* jsonwebtoken: sign, verify and its error classes *)

\* configService.get('jwtExpiresIn'), in ticks of the clock
JwtExpiresIn == 1

NoToken == [sig |-> "none", id |-> 0, email |-> "", roles |-> {}, exp |-> 0]

\* a token whose signature does not verify under jwtSecret
Forged == [sig |-> "bad", id |-> 1, email |-> "a@x", roles |-> {"admin"}, exp |-> MaxTime + JwtExpiresIn]

\* jwt.sign(payload, jwtSecret, {expiresIn})
sign(payload, t) ==
  [sig |-> "good", id |-> payload.id, email |-> payload.email, roles |-> payload.roles,
   exp |-> t + JwtExpiresIn]

\* jwt.verify(token, jwtSecret): "ok", or the class of the error thrown; the
\* signature is checked before the expiry
verify(token, t) ==
  IF token.sig # "good" THEN "JsonWebTokenError"
  ELSE IF t >= token.exp THEN "TokenExpiredError"
  ELSE "ok"

\* `error instanceof cls`: TokenExpiredError's prototype is created from
\* JsonWebTokenError's, so an expired-token error is an instance of both
InstanceOf(errorClass, cls) ==
  \/ errorClass = cls
  \/ errorClass = "TokenExpiredError" /\ cls = "JsonWebTokenError"

\* the catch block shared by createAuthMiddleware and AuthService.validateToken
CatchJwtError(errorClass) ==
  IF InstanceOf(errorClass, "JsonWebTokenError") THEN UnauthorizedError("Invalid token")
  ELSE IF InstanceOf(errorClass, "TokenExpiredError") THEN UnauthorizedError("Token has expired")
  ELSE StorageError(errorClass)

----------------------------------------------------------------------------
(* auth.middleware: a request's Authorization header is [scheme, token],   *)
(* request.user is the set holding the decoded payload, or {}              *)

NoHeader == [scheme |-> "none", token |-> NoToken]
Bearer(token) == [scheme |-> "Bearer", token |-> token]
Raw(token) == [scheme |-> "raw", token |-> token]

\* authHeader.startsWith('Bearer ') ? authHeader.slice(7) : authHeader
ExtractToken(header) == header.token

Gate(err, user) == [err |-> err, user |-> user]

createAuthMiddleware(header, t) ==
  IF header.scheme = "none"
  THEN Gate(UnauthorizedError("Authorization header is required"), {})
  ELSE IF ExtractToken(header) = NoToken
  THEN Gate(UnauthorizedError("Token is required"), {})
  ELSE IF verify(ExtractToken(header), t) # "ok"
  THEN Gate(CatchJwtError(verify(ExtractToken(header), t)), {})
  ELSE Gate(OK, {ExtractToken(header)})

requireAuth(user) ==
  IF user = {} THEN Gate(UnauthorizedError("Authentication required"), user)
  ELSE Gate(OK, user)

\* a requireRoles that looks the caller's roles up in the store
requireRoles_from_store(required, user) ==
  IF user = {} THEN Gate(UnauthorizedError("Authentication required"), user)
  ELSE IF \E u \in user : getUserRoles(DB, u.id) = {}
  THEN Gate(UnauthorizedError("No roles assigned to user"), user)
  ELSE IF ~(\E role \in required : \E u \in user :
              toLowerCase(role) \in {r.name : r \in getUserRoles(DB, u.id)})
  THEN Gate(UnauthorizedError("Access denied"), user)
  ELSE Gate(OK, user)

\* a requireRoles that compares the required names as written
requireRoles_as_written(required, user) ==
  IF user = {} THEN Gate(UnauthorizedError("Authentication required"), user)
  ELSE IF \E u \in user : u.roles = {}
  THEN Gate(UnauthorizedError("No roles assigned to user"), user)
  ELSE IF ~(\E role \in required : \E u \in user : role \in u.roles)
  THEN Gate(UnauthorizedError("Access denied"), user)
  ELSE Gate(OK, user)

\* roles.some(role => request.user.roles.includes(role.toLowerCase())); the
\* text of the last error goes on with the list of the required roles
requireRoles(required, user) ==
  IF user = {} THEN Gate(UnauthorizedError("Authentication required"), user)
  ELSE IF \E u \in user : u.roles = {}
  THEN Gate(UnauthorizedError("No roles assigned to user"), user)
  ELSE IF ~(\E role \in required : \E u \in user : toLowerCase(role) \in u.roles)
  THEN Gate(UnauthorizedError("Access denied"), user)
  ELSE Gate(OK, user)

----------------------------------------------------------------------------
(* AuthService: out is the access token issued, or NoToken *)

\* configService.get('defaultUserRole')
DefaultUserRole == "user"

generateAccessToken(user, userRoles, t) ==
  sign([id |-> user.id, email |-> user.email, roles |-> {r.name : r \in userRoles}], t)

\* a login that never looks at isActive
login_ignoring_isActive(db, dto, t) ==
  LET found == findByEmail(db, toLowerCase(dto.email))
      user == CHOOSE u \in found.out : TRUE
      logged == updateLastLogin(db, user.id, t)
  IN IF ~IsOk(found.err) THEN Res(found.err, db, NoToken)
     ELSE IF found.out = {}
     THEN Res(UnauthorizedError("Invalid email or password"), db, NoToken)
     ELSE IF ~validatePassword(user, dto.password)
     THEN Res(UnauthorizedError("Invalid email or password"), db, NoToken)
     ELSE IF ~IsOk(logged.err) THEN Res(logged.err, db, NoToken)
     ELSE Res(OK, logged.db, generateAccessToken(user, getUserRoles(logged.db, user.id), t))

login(db, dto, t) ==
  LET found == findByEmail(db, toLowerCase(dto.email))
      user == CHOOSE u \in found.out : TRUE
      logged == updateLastLogin(db, user.id, t)
  IN IF ~IsOk(found.err) THEN Res(found.err, db, NoToken)
     ELSE IF found.out = {}
     THEN Res(UnauthorizedError("Invalid email or password"), db, NoToken)
     ELSE IF ~user.isActive
     THEN Res(UnauthorizedError("Account is deactivated"), db, NoToken)
     ELSE IF ~validatePassword(user, dto.password)
     THEN Res(UnauthorizedError("Invalid email or password"), db, NoToken)
     ELSE IF ~IsOk(logged.err) THEN Res(logged.err, db, NoToken)
     ELSE Res(OK, logged.db, generateAccessToken(user, getUserRoles(logged.db, user.id), t))

\* the loop of register over rolesToAssign: a role that is not found is
\* skipped, an assignment that throws ends the registration
RECURSIVE AssignRoles(_, _, _, _)
AssignRoles(db, rolesToAssign, newUserId, assignerId) ==
  IF rolesToAssign = <<>> THEN Res(OK, db, {})
  ELSE LET role == findRoleByName(db, toLowerCase(Head(rolesToAssign)))
           assigned == assignRoleToUser(db, newUserId, (CHOOSE r \in role.out : TRUE).id,
                                        assignerId)
       IN IF ~IsOk(role.err) THEN role
          ELSE IF role.out = {}
          THEN AssignRoles(db, Tail(rolesToAssign), newUserId, assignerId)
          ELSE IF ~IsOk(assigned.err) THEN assigned
          ELSE AssignRoles(assigned.db, Tail(rolesToAssign), newUserId, assignerId)

\* a register that lets any caller name the roles
register_without_privilege_check(db, dto, requestingUserId, t) ==
  LET wantsRoles == Len(dto.roles) > 0
      made == UserService_create(db, [email |-> dto.email, username |-> "",
                                      password |-> dto.password])
      newUser == made.out
      rolesToAssign == IF wantsRoles THEN dto.roles ELSE <<DefaultUserRole>>
      assignerId == IF requestingUserId # 0 THEN requestingUserId ELSE newUser.id
      assigned == AssignRoles(made.db, rolesToAssign, newUser.id, assignerId)
      found == findByEmail(assigned.db, newUser.email)
      user == CHOOSE u \in found.out : TRUE
  IN IF ~IsOk(made.err) THEN Res(made.err, made.db, NoToken)
     ELSE IF ~IsOk(assigned.err) THEN Res(assigned.err, assigned.db, NoToken)
     ELSE IF ~IsOk(found.err) THEN Res(found.err, assigned.db, NoToken)
     ELSE IF found.out = {}
     THEN Res(StorageError("Failed to retrieve created user"), assigned.db, NoToken)
     ELSE Res(Created, assigned.db,
              generateAccessToken(user, getUserRoles(assigned.db, newUser.id), t))

\* register(registerDto, requestingUserId), requestingUserId 0 for undefined
register(db, dto, requestingUserId, t) ==
  LET wantsRoles == Len(dto.roles) > 0
      made == UserService_create(db, [email |-> dto.email, username |-> "",
                                      password |-> dto.password])
      newUser == made.out
      rolesToAssign == IF wantsRoles THEN dto.roles ELSE <<DefaultUserRole>>
      assignerId == IF requestingUserId # 0 THEN requestingUserId ELSE newUser.id
      assigned == AssignRoles(made.db, rolesToAssign, newUser.id, assignerId)
      found == findByEmail(assigned.db, newUser.email)
      user == CHOOSE u \in found.out : TRUE
  IN IF wantsRoles /\ requestingUserId = 0
     THEN Res(UnauthorizedError("Authentication required to assign roles"), db, NoToken)
     ELSE IF wantsRoles /\ ~userHasRole(db, requestingUserId, "admin")
     THEN Res(UnauthorizedError("Admin privileges required to assign roles"), db, NoToken)
     ELSE IF ~IsOk(made.err) THEN Res(made.err, made.db, NoToken)
     ELSE IF ~IsOk(assigned.err) THEN Res(assigned.err, assigned.db, NoToken)
     ELSE IF ~IsOk(found.err) THEN Res(found.err, assigned.db, NoToken)
     ELSE IF found.out = {}
     THEN Res(StorageError("Failed to retrieve created user"), assigned.db, NoToken)
     ELSE Res(Created, assigned.db,
              generateAccessToken(user, getUserRoles(assigned.db, newUser.id), t))

\* validateToken: out is the decoded payload
validateToken(db, token, t) ==
  LET found == findByEmail(db, token.email)
  IN IF verify(token, t) # "ok" THEN Res(CatchJwtError(verify(token, t)), db, NoToken)
     ELSE IF ~IsOk(found.err) THEN Res(found.err, db, NoToken)
     ELSE IF found.out = {} \/ \E u \in found.out : ~u.isActive
     THEN Res(UnauthorizedError("Invalid token"), db, NoToken)
     ELSE Res(OK, db, token)

refreshToken(db, oldToken, t) ==
  LET decoded == validateToken(db, oldToken, t)
      found == findByEmail(db, decoded.out.email)
      user == CHOOSE u \in found.out : TRUE
  IN IF ~IsOk(decoded.err) THEN decoded
     ELSE IF found.out = {} THEN Res(UnauthorizedError("User not found"), db, NoToken)
     ELSE Res(OK, db, generateAccessToken(user, getUserRoles(db, user.id), t))

\* the AuthResponse of a login or refresh that issued accessToken:
\* `user: publicUser!` is userService.findById(user.id) on the store it left
AuthResponse(db, accessToken) ==
  [user        |-> UserService_findById(db, accessToken.id).out,
   accessToken |-> accessToken,
   tokenType   |-> "Bearer",
   expiresIn   |-> JwtExpiresIn]

----------------------------------------------------------------------------
(* Routes: the preHandler chain each controller registers, and Fastify's   *)
(* run of it: the first hook that throws answers the request               *)

Hook(name, required) == [hook |-> name, roles |-> required]

AuthHook       == Hook("authMiddleware", {})
RequireAuth    == Hook("requireAuth", {})
RequireAdmin   == Hook("requireRoles", {"admin"})

RoleRoutes ==
  {"GET /api/roles", "GET /api/roles/:id", "POST /api/roles", "PUT /api/roles/:id",
   "DELETE /api/roles/:id", "POST /api/roles/assign", "POST /api/roles/remove",
   "GET /api/users/:userId/roles", "GET /api/roles/:roleId/users"}

ProductWriteRoutes ==
  {"POST /api/products", "PUT /api/products/:id", "DELETE /api/products/:id",
   "PATCH /api/products/:id/stock"}

\* a route table whose product write routes only ask for a token
PreHandlers_products_any_token(route) ==
  CASE route \in {"POST /api/auth/login", "POST /api/auth/register"} -> <<>>
    [] route = "POST /api/auth/refresh" -> <<AuthHook>>
    [] route \in {"POST /api/users", "DELETE /api/users/:id"} -> <<AuthHook, RequireAdmin>>
    [] route = "PUT /api/users/:id" -> <<AuthHook>>
    [] route = "PUT /api/users/me/profile" -> <<AuthHook, RequireAuth>>
    [] route \in RoleRoutes -> <<AuthHook, RequireAuth, RequireAdmin>>
    [] route \in ProductWriteRoutes -> <<AuthHook>>

PreHandlers(route) ==
  CASE route \in {"POST /api/auth/login", "POST /api/auth/register"} -> <<>>
    [] route = "POST /api/auth/refresh" -> <<AuthHook>>
    [] route \in {"POST /api/users", "DELETE /api/users/:id"} -> <<AuthHook, RequireAdmin>>
    [] route = "PUT /api/users/:id" -> <<AuthHook>>
    [] route = "PUT /api/users/me/profile" -> <<AuthHook, RequireAuth>>
    [] route \in RoleRoutes -> <<AuthHook, RequireAuth, RequireAdmin>>
    [] route \in ProductWriteRoutes -> <<AuthHook, RequireAdmin>>

RunHook(h, header, t, user) ==
  CASE h.hook = "authMiddleware" -> createAuthMiddleware(header, t)
    [] h.hook = "requireAuth"    -> requireAuth(user)
    [] h.hook = "requireRoles"   -> requireRoles(h.roles, user)

RECURSIVE RunHooks(_, _, _, _)
RunHooks(hooks, header, t, user) ==
  IF hooks = <<>> THEN Gate(OK, user)
  ELSE LET g == RunHook(Head(hooks), header, t, user)
       IN IF IsOk(g.err) THEN RunHooks(Tail(hooks), header, t, g.user) ELSE g

\* the gate of a route: [err, user] after its whole preHandler chain
RouteGate(route, header, t) == RunHooks(PreHandlers(route), header, t, {})

----------------------------------------------------------------------------
(* ProductService; dto of update is a function on the fields the request supplies *)

findBySku(db, sku) ==
  IF ~Truthy(sku)
  THEN Res(ValidationError("SKU is required"), db, {})
  ELSE findOne(db, "products", [sku |-> sku])

ProductService_create(db, dto) ==
  LET existingProduct == findBySku(db, dto.sku)
      productData == [name          |-> "name",
                      description   |-> "text",
                      price         |-> 1,
                      category      |-> "cat",
                      sku           |-> dto.sku,
                      stockQuantity |-> dto.stockQuantity,
                      inStock       |-> dto.stockQuantity > 0,
                      imageUrl      |-> ""]
      made == create(db, "products", productData)
  IN IF ~IsOk(existingProduct.err) THEN existingProduct
     ELSE IF existingProduct.out # {}
     THEN Res(ValidationError("Product with this SKU already exists"), db, {})
     ELSE IF ~IsOk(made.err) THEN made
     ELSE Res(Created, made.db, made.out)

\* update writing the dto as it comes
ProductService_update_without_recompute(db, id, dto) ==
  LET existing == findById(db, "products", id)
      existingProduct == CHOOSE x \in existing : TRUE
      checksSku == Has(dto, "sku") /\ Truthy(dto.sku) /\ dto.sku # existingProduct.sku
      skuConflict == findBySku(db, dto.sku)
      updated == update(db, "products", id, dto)
  IN IF existing = {} THEN Res(NotFoundError("Product"), db, {})
     ELSE IF checksSku /\ ~IsOk(skuConflict.err) THEN skuConflict
     ELSE IF checksSku /\ \E c \in skuConflict.out : c.id # id
     THEN Res(ValidationError("Product with this SKU already exists"), db, {})
     ELSE IF ~IsOk(updated.err) THEN updated
     ELSE IF updated.out = {} THEN Res(NotFoundError("Product"), db, {})
     ELSE Res(OK, updated.db, updated.out)

ProductService_update(db, id, dto) ==
  LET existing == findById(db, "products", id)
      existingProduct == CHOOSE x \in existing : TRUE
      checksSku == Has(dto, "sku") /\ Truthy(dto.sku) /\ dto.sku # existingProduct.sku
      skuConflict == findBySku(db, dto.sku)
      updateData == [k \in DOMAIN dto \cup (IF Has(dto, "stockQuantity") THEN {"inStock"} ELSE {})
                       |-> IF k = "inStock" /\ Has(dto, "stockQuantity")
                           THEN dto.stockQuantity > 0
                           ELSE dto[k]]
      updated == update(db, "products", id, updateData)
  IN IF existing = {} THEN Res(NotFoundError("Product"), db, {})
     ELSE IF checksSku /\ ~IsOk(skuConflict.err) THEN skuConflict
     ELSE IF checksSku /\ \E c \in skuConflict.out : c.id # id
     THEN Res(ValidationError("Product with this SKU already exists"), db, {})
     ELSE IF ~IsOk(updated.err) THEN updated
     ELSE IF updated.out = {} THEN Res(NotFoundError("Product"), db, {})
     ELSE Res(OK, updated.db, updated.out)

ProductService_delete(db, id) ==
  IF findById(db, "products", id) = {}
  THEN Res(NotFoundError("Product"), db, FALSE)
  ELSE delete(db, "products", id)

updateStock(db, id, quantity) ==
  IF quantity < 0
  THEN Res(ValidationError("Stock quantity cannot be negative"), db, {})
  ELSE ProductService_update(db, id, [stockQuantity |-> quantity, inStock |-> quantity > 0])

\* Math.max(a, b)
Max(a, b) == IF a >= b THEN a ELSE b

reduceStock(db, id, amount) ==
  LET product == findById(db, "products", id)
      newQuantity == Max(0, (CHOOSE x \in product : TRUE).stockQuantity - amount)
  IN IF product = {} THEN Res(NotFoundError("Product"), db, {})
     ELSE updateStock(db, id, newQuantity)

----------------------------------------------------------------------------
(* FileService.  The uploads directory is db.disk, the set of the names of *)
(* the files in it; a buffer is modelled by its length                     *)

\* configService.get('allowedFileTypes') and configService.get('maxFileSize')
AllowedFileTypes == <<"jpg", "jpeg", "png", "gif", "pdf", "doc", "docx", "txt">>
MaxFileSize == 2

\* an allow-list that is not consulted
includes_anything(list, x) == TRUE

\* Array.prototype.includes
includes(list, x) == \E i \in DOMAIN list : list[i] = x

RECURSIVE join(_, _)
join(list, separator) ==
  IF list = <<>> THEN ""
  ELSE IF Len(list) = 1 THEN list[1]
  ELSE list[1] \o separator \o join(Tail(list), separator)

\* path.extname: from the last dot of the name, "" when there is none
extname(name) ==
  CASE name = "a.png" -> ".png"
    [] name = "a.PNG" -> ".PNG"
    [] name = "a.exe" -> ".exe"
    [] OTHER          -> ""

\* String.prototype.substring(1)
substring1(s) ==
  CASE s = ".png" -> "png"
    [] s = ".exe" -> "exe"
    [] OTHER      -> ""

\* `${timestamp}_${randomString}_${originalName}`: a name no file of the
\* directory carries
freshStamp(db) == Min(IdPool \ {f[1] : f \in db.disk})
generateFilename(db, originalName) == <<freshStamp(db), originalName>>

\* the catch block of uploadFile: unlink, whose own failure is logged only,
\* then the caught error again
cleanUpAndRethrow(error, db, filename, unlinkOk) ==
  Res(error, IF unlinkOk THEN [db EXCEPT !.disk = @ \ {filename}] ELSE db, {})

\* uploadFile leaving the written file where it is when the insert fails
uploadFile_without_cleanup(db, size, originalName, mimeType, uploadedBy, writeOk, unlinkOk) ==
  LET fileExtension == substring1(toLowerCase(extname(originalName)))
      filename == generateFilename(db, originalName)
      written == [db EXCEPT !.disk = @ \cup {filename}]
      data == [k \in {"originalName", "filename", "size", "path"}
                       \cup (IF mimeType # "" THEN {"mimeType"} ELSE {})
                       \cup (IF uploadedBy # 0 THEN {"uploadedBy"} ELSE {}) |->
                 CASE k = "originalName" -> originalName
                   [] k = "filename"     -> filename
                   [] k = "mimeType"     -> mimeType
                   [] k = "size"         -> size
                   [] k = "path"         -> filename
                   [] k = "uploadedBy"   -> uploadedBy]
      fileEntity == create(written, "files", data)
  IN IF ~includes(AllowedFileTypes, fileExtension)
     THEN Res(ValidationError("File type '" \o fileExtension \o "' is not allowed. Allowed types: "
                                \o join(AllowedFileTypes, ", ")), db, {})
     ELSE IF size > MaxFileSize
     THEN Res(ValidationError("File size exceeds maximum allowed size of "
                                \o ToString(MaxFileSize) \o " bytes"), db, {})
     ELSE IF ~writeOk THEN Res(StorageError("EIO: write failed"), db, {})
     ELSE IF ~IsOk(fileEntity.err) THEN Res(fileEntity.err, written, {})
     ELSE Res(Created, fileEntity.db, fileEntity.out)

\* uploadFile(fileData, originalName, mimeType, uploadedBy): size is
\* fileData.length, mimeType "" and uploadedBy 0 stand for undefined; writeOk
\* and unlinkOk tell whether fs.writeFile and fs.unlink succeed
uploadFile(db, size, originalName, mimeType, uploadedBy, writeOk, unlinkOk) ==
  LET fileExtension == substring1(toLowerCase(extname(originalName)))
      filename == generateFilename(db, originalName)
      written == [db EXCEPT !.disk = @ \cup {filename}]
      data == [k \in {"originalName", "filename", "size", "path"}
                       \cup (IF mimeType # "" THEN {"mimeType"} ELSE {})
                       \cup (IF uploadedBy # 0 THEN {"uploadedBy"} ELSE {}) |->
                 CASE k = "originalName" -> originalName
                   [] k = "filename"     -> filename
                   [] k = "mimeType"     -> mimeType
                   [] k = "size"         -> size
                   [] k = "path"         -> filename
                   [] k = "uploadedBy"   -> uploadedBy]
      fileEntity == create(written, "files", data)
  IN IF ~includes(AllowedFileTypes, fileExtension)
     THEN Res(ValidationError("File type '" \o fileExtension \o "' is not allowed. Allowed types: "
                                \o join(AllowedFileTypes, ", ")), db, {})
     ELSE IF size > MaxFileSize
     THEN Res(ValidationError("File size exceeds maximum allowed size of "
                                \o ToString(MaxFileSize) \o " bytes"), db, {})
     ELSE IF ~writeOk
     THEN cleanUpAndRethrow(StorageError("EIO: write failed"), db, filename, unlinkOk)
     ELSE IF ~IsOk(fileEntity.err)
     THEN cleanUpAndRethrow(fileEntity.err, written, filename, unlinkOk)
     ELSE Res(Created, fileEntity.db, fileEntity.out)

----------------------------------------------------------------------------
(* Controllers: the handler of each route; err is the reply's status and text *)

validateLoginDto(body) == includesAt(body.email) /\ Len(body.password) > 0

validateRegisterDto(body) == includesAt(body.email) /\ Len(body.password) >= 6

validateCreateUserDto(body) ==
  includesAt(body.email) /\ Len(body.username) >= 3 /\ Len(body.password) >= 6

validateUpdateUserDto(body) ==
  /\ Has(body, "email") => includesAt(body.email)
  /\ Has(body, "username") => Len(body.username) >= 3
  /\ Has(body, "password") => Len(body.password) >= 6
  /\ DOMAIN body # {}

Caller(user) == CHOOSE u \in user : TRUE

\* reply.status(code).send(new SuccessResponse / ErrorResponse(msg))
Replied(code, msg, r) == Res(Err(code, msg), r.db, r.out)

AuthController_login(db, body, t) ==
  LET r == login(db, body, t)
  IN IF ~validateLoginDto(body)
     THEN Res(ValidationError("Invalid login credentials provided"), db, NoToken)
     ELSE IF IsOk(r.err) THEN Replied(200, "Login successful", r) ELSE r

\* request.user?.id is undefined when no hook has set request.user
AuthController_register(db, body, user, t) ==
  LET requestingUserId == IF user = {} THEN 0 ELSE Caller(user).id
      r == register(db, body, requestingUserId, t)
  IN IF ~validateRegisterDto(body)
     THEN Res(ValidationError("Invalid registration data provided"), db, NoToken)
     ELSE IF IsOk(r.err) THEN Replied(201, "Registration successful", r) ELSE r

AuthController_refreshToken(db, header, t) ==
  LET r == refreshToken(db, ExtractToken(header), t)
  IN IF header.scheme = "none"
     THEN Res(Err(401, "Authorization header required"), db, NoToken)
     ELSE IF IsOk(r.err) THEN Replied(200, "Token refreshed successfully", r) ELSE r

UserController_createUser(db, body) ==
  LET r == UserService_create(db, body)
  IN IF ~validateCreateUserDto(body)
     THEN Res(ValidationError("Invalid user data provided"), db, {})
     ELSE IF IsOk(r.err) THEN Replied(201, "User created successfully", r) ELSE r

\* createUser up to the answer of `await this.findByEmail(...)`, the first
\* read of the store: out tells whether the request goes on
UserController_createUser_findByEmail(db, body) ==
  LET byEmail == findByEmail(db, body.email)
  IN IF ~validateCreateUserDto(body)
     THEN Res(ValidationError("Invalid user data provided"), db, FALSE)
     ELSE IF ~IsOk(byEmail.err) THEN Res(byEmail.err, db, FALSE)
     ELSE IF byEmail.out # {}
     THEN Res(ValidationError("User with this email already exists"), db, FALSE)
     ELSE Res(OK, db, TRUE)

\* createUser from `await this.findByUsername(...)` to the reply
UserController_createUser_resumed(db, body) ==
  LET byUsername == findByUsername(db, body.username)
      userData == [email        |-> toLowerCase(body.email),
                   username     |-> body.username,
                   firstName    |-> "first",
                   lastName     |-> "last",
                   passwordHash |-> Hash(body.password),
                   isActive     |-> TRUE]
      made == create(db, "users", userData)
  IN IF ~IsOk(byUsername.err) THEN byUsername
     ELSE IF byUsername.out # {}
     THEN Res(ValidationError("User with this username already exists"), db, {})
     ELSE IF ~IsOk(made.err) THEN made
     ELSE Replied(201, "User created successfully",
                  Res(Created, made.db, toPublicUser(made.out)))

\* an updateUser that lets any authenticated caller update any user
UserController_updateUser_without_owner_check(db, user, id, body) ==
  LET r == UserService_update(db, id, body)
  IN IF ~validateUpdateUserDto(body)
     THEN Res(ValidationError("Invalid update data provided"), db, {})
     ELSE IF IsOk(r.err) THEN Replied(200, "User updated successfully", r) ELSE r

UserController_updateUser(db, user, id, body) ==
  LET hasAdminRole == userHasRole(db, Caller(user).id, "admin")
      r == UserService_update(db, id, body)
  IN IF Caller(user).id # id /\ ~hasAdminRole
     THEN Res(Err(403, "Forbidden: You can only update your own profile"), db, {})
     ELSE IF ~validateUpdateUserDto(body)
     THEN Res(ValidationError("Invalid update data provided"), db, {})
     ELSE IF IsOk(r.err) THEN Replied(200, "User updated successfully", r) ELSE r

UserController_deleteUser(db, user, id) ==
  LET r == UserService_delete(db, id)
  IN IF user # {} /\ Caller(user).id = id
     THEN Res(Err(400, "You cannot delete your own account"), db, FALSE)
     ELSE IF ~IsOk(r.err) THEN r
     ELSE IF ~r.out THEN Replied(404, "User not found", r)
     ELSE Replied(200, "User deleted successfully", r)

UserController_updateProfile(db, user, body) ==
  LET hasAdminRole == userHasRole(db, Caller(user).id, "admin")
      updateData == IF hasAdminRole THEN body
                    ELSE [k \in DOMAIN body \ {"isActive"} |-> body[k]]
      r == UserService_update(db, Caller(user).id, updateData)
  IN IF ~validateUpdateUserDto(body)
     THEN Res(ValidationError("Invalid profile data provided"), db, {})
     ELSE IF IsOk(r.err) THEN Replied(200, "Profile updated successfully", r) ELSE r

validateCreateRoleRequest(body) == Len(body.name) >= 2

validateUpdateRoleRequest(body) == Has(body, "name") => Len(body.name) >= 2

RoleController_createRole(db, body) ==
  LET r == createRole(db, body.name)
  IN IF ~validateCreateRoleRequest(body)
     THEN Res(ValidationError("Invalid role data provided"), db, {})
     ELSE IF IsOk(r.err) THEN Replied(201, "Role created successfully", r) ELSE r

RoleController_updateRole(db, id, body) ==
  LET r == updateRole(db, id, IF Has(body, "name") THEN body.name ELSE "")
  IN IF ~validateUpdateRoleRequest(body)
     THEN Res(ValidationError("Invalid role update data provided"), db, {})
     ELSE IF IsOk(r.err) THEN Replied(200, "Role updated successfully", r) ELSE r

RoleController_deleteRole(db, id) ==
  LET r == deleteRole(db, id)
  IN IF ~IsOk(r.err) THEN r
     ELSE IF ~r.out THEN Replied(404, "Role not found", r)
     ELSE Replied(200, "Role deleted successfully", r)

RoleController_assignRole(db, user, body) ==
  LET r == assignRoleToUser(db, body.userId, body.roleId, Caller(user).id)
  IN IF IsOk(r.err) THEN Replied(201, "Role assigned successfully", r) ELSE r

RoleController_removeRole(db, body) ==
  LET r == removeRoleFromUser(db, body.userId, body.roleId)
  IN IF ~IsOk(r.err) THEN r
     ELSE IF ~r.out THEN Replied(404, "Role assignment not found", r)
     ELSE Replied(200, "Role removed successfully", r)

validateCreateProductDto(body) == body.stockQuantity >= 0

validateUpdateProductDto(body) ==
  /\ Has(body, "stockQuantity") => body.stockQuantity >= 0
  /\ DOMAIN body # {}

ProductController_createProduct(db, body) ==
  LET r == ProductService_create(db, body)
  IN IF ~validateCreateProductDto(body)
     THEN Res(ValidationError("Invalid product data provided"), db, {})
     ELSE IF IsOk(r.err) THEN Replied(201, "Product created successfully", r) ELSE r

ProductController_updateProduct(db, id, body) ==
  LET r == ProductService_update(db, id, body)
  IN IF ~validateUpdateProductDto(body)
     THEN Res(ValidationError("Invalid update data provided"), db, {})
     ELSE IF IsOk(r.err) THEN Replied(200, "Product updated successfully", r) ELSE r

ProductController_deleteProduct(db, id) ==
  LET r == ProductService_delete(db, id)
  IN IF ~IsOk(r.err) THEN r
     ELSE IF ~r.out THEN Replied(404, "Product not found", r)
     ELSE Replied(200, "Product deleted successfully", r)

ProductController_updateStock(db, id, body) ==
  LET r == updateStock(db, id, body.quantity)
  IN IF body.quantity < 0
     THEN Res(ValidationError("Valid quantity is required"), db, {})
     ELSE IF IsOk(r.err) THEN Replied(200, "Product stock updated successfully", r) ELSE r

----------------------------------------------------------------------------
(* A request: the route's gate, then its handler with request.user *)

Served(ran, r) == [err |-> r.err, db |-> r.db, out |-> r.out, ran |-> ran]

\* the preHandler chain g has run; handled is what the handler answers with
\* request.user = g.user, and ran tells whether the handler was entered
Serve(g, db, handled) ==
  IF IsOk(g.err)
  THEN Served(TRUE, handled)
  ELSE Served(FALSE, Res(g.err, db, NoToken))

----------------------------------------------------------------------------
(* The requests a client can send: small input sets *)

EmailInputs    == {"a@x", "b@x", "A@x"}
NewEmailInputs == {"a@x", "A@x", "c@x"}
Passwords      == {"secret1", "wrong12"}
RoleLists      == {<<>>, <<"user">>, <<"Admin", "user">>}
UserIds        == {1, 2}

Headers == {NoHeader, Bearer(NoToken), Bearer(Forged)}
             \cup {Bearer(tok) : tok \in tokens} \cup {Raw(tok) : tok \in tokens}

LoginBodies == [email : EmailInputs, password : Passwords]
RegisterBodies == [email : NewEmailInputs, password : {"secret1", "short"}, roles : RoleLists]
CreateUserBodies == [email : NewEmailInputs, username : {"bob"}, password : {"secret1"}]
UpdateUserBodies == {[email |-> e] : e \in EmailInputs} \cup {[isActive |-> b] : b \in BOOLEAN}

----------------------------------------------------------------------------
(* State: the five tables, the names of the files in the uploads           *)
(* directory, the signed tokens clients hold, the clock, and the status    *)
(* and text of the last reply                                              *)

\* the POST /api/users requests in flight: where each stands in
\* UserService.create, and its body
Creators == {1, 2}

NoBody == [email |-> "", username |-> "", password |-> ""]

Idle == [stage |-> "idle", body |-> NoBody]

StoreInit ==
  /\ users = {[id |-> 1, email |-> "a@x", passwordHash |-> Hash("secret1"),
               isActive |-> TRUE, lastLogin |-> 0],
              [id |-> 2, email |-> "b@x", passwordHash |-> Hash("secret1"),
               isActive |-> TRUE, lastLogin |-> 0]}
  /\ roles = {[id |-> 1, name |-> "admin"], [id |-> 2, name |-> "user"]}
  /\ user_roles = {[id |-> 1, userId |-> 1, roleId |-> 1, assignedBy |-> 1],
                   [id |-> 2, userId |-> 2, roleId |-> 2, assignedBy |-> 2]}
  /\ products = {}
  /\ files = {}
  /\ disk = {}

Init ==
  /\ StoreInit
  /\ tokens = {}
  /\ now = 1
  /\ last = Err(0, "")
  /\ creating = [p \in Creators |-> Idle]

\* the reply is sent and the tables are as the handler left them
Commit(r) ==
  /\ users' = r.db.users
  /\ roles' = r.db.roles
  /\ user_roles' = r.db.user_roles
  /\ products' = r.db.products
  /\ files' = r.db.files
  /\ disk' = r.db.disk
  /\ last' = r.err
  /\ UNCHANGED <<now, creating>>

\* the same, and the client keeps the token the reply carries
CommitToken(r) ==
  /\ r.out # NoToken => (r.out \in tokens \/ Cardinality(tokens) < MaxTokens)
  /\ tokens' = IF r.out = NoToken THEN tokens ELSE tokens \cup {r.out}
  /\ Commit(r)

\* request.user once the route's preHandlers have run
RequestUser(route, header) == RouteGate(route, header, now).user

\* the requests: each route with its handler bound
ReqLogin(body) ==
  Serve(RouteGate("POST /api/auth/login", NoHeader, now), DB,
        AuthController_login(DB, body, now))

ReqRegister(header, body) ==
  Serve(RouteGate("POST /api/auth/register", header, now), DB,
        AuthController_register(DB, body, RequestUser("POST /api/auth/register", header), now))

ReqRefresh(header) ==
  Serve(RouteGate("POST /api/auth/refresh", header, now), DB,
        AuthController_refreshToken(DB, header, now))

ReqCreateUser(header, body) ==
  Serve(RouteGate("POST /api/users", header, now), DB,
        UserController_createUser(DB, body))

ReqUpdateUser(header, id, body) ==
  Serve(RouteGate("PUT /api/users/:id", header, now), DB,
        UserController_updateUser(DB, RequestUser("PUT /api/users/:id", header), id, body))

ReqUpdateProfile(header, body) ==
  Serve(RouteGate("PUT /api/users/me/profile", header, now), DB,
        UserController_updateProfile(DB, RequestUser("PUT /api/users/me/profile", header), body))

ReqDeleteUser(header, id) ==
  Serve(RouteGate("DELETE /api/users/:id", header, now), DB,
        UserController_deleteUser(DB, RequestUser("DELETE /api/users/:id", header), id))

Login(body) == CommitToken(ReqLogin(body))

Register(header, body) == CommitToken(ReqRegister(header, body))

Refresh(header) == CommitToken(ReqRefresh(header))

CreateUser(header, body) ==
  /\ Commit(ReqCreateUser(header, body))
  /\ UNCHANGED tokens

UpdateUser(header, id, body) ==
  /\ Commit(ReqUpdateUser(header, id, body))
  /\ UNCHANGED tokens

UpdateProfile(header, body) ==
  /\ Commit(ReqUpdateProfile(header, body))
  /\ UNCHANGED tokens

DeleteUser(header, id) ==
  /\ Commit(ReqDeleteUser(header, id))
  /\ UNCHANGED tokens

Tick ==
  /\ now < MaxTime
  /\ now' = now + 1
  /\ UNCHANGED <<users, roles, user_roles, products, files, disk, tokens, last, creating>>

Next ==
  \/ \E body \in LoginBodies : Login(body)
  \/ \E header \in Headers, body \in RegisterBodies : Register(header, body)
  \/ \E header \in Headers : Refresh(header)
  \/ \E header \in Headers, body \in CreateUserBodies : CreateUser(header, body)
  \/ \E header \in Headers, id \in UserIds, body \in UpdateUserBodies :
        UpdateUser(header, id, body)
  \/ \E header \in Headers, body \in UpdateUserBodies : UpdateProfile(header, body)
  \/ \E header \in Headers, id \in UserIds : DeleteUser(header, id)
  \/ Tick

Spec == Init /\ [][Next]_vars

----------------------------------------------------------------------------
(* Administration: the role routes and the product write routes *)

\* the requests leave role 1 (admin) as it is
RoleIds      == 2..MaxRows
ProductIds   == {1}
RoleNames    == {"ops", "Admin"}
Quantities   == {2}

CreateRoleBodies    == [name : RoleNames]
UpdateRoleBodies    == {[name |-> "ops"]}
AssignRoleBodies    == [userId : {2}, roleId : RoleIds] \cup {[userId |-> 1, roleId |-> 2]}
CreateProductBodies == [sku : {"s1"}, stockQuantity : Quantities]
UpdateProductBodies == {[stockQuantity |-> q] : q \in Quantities}
StockBodies         == [quantity : {-1, 0}]
AdminHeaders        == {NoHeader, Bearer(Forged)} \cup {Bearer(tok) : tok \in tokens}
AdminLoginBodies    == [email : {"a@x", "b@x"}, password : {"secret1"}]

ReqCreateRole(header, body) ==
  Serve(RouteGate("POST /api/roles", header, now), DB,
        RoleController_createRole(DB, body))

ReqUpdateRole(header, id, body) ==
  Serve(RouteGate("PUT /api/roles/:id", header, now), DB,
        RoleController_updateRole(DB, id, body))

ReqDeleteRole(header, id) ==
  Serve(RouteGate("DELETE /api/roles/:id", header, now), DB,
        RoleController_deleteRole(DB, id))

ReqAssignRole(header, body) ==
  Serve(RouteGate("POST /api/roles/assign", header, now), DB,
        RoleController_assignRole(DB, RequestUser("POST /api/roles/assign", header), body))

ReqRemoveRole(header, body) ==
  Serve(RouteGate("POST /api/roles/remove", header, now), DB,
        RoleController_removeRole(DB, body))

ReqCreateProduct(header, body) ==
  Serve(RouteGate("POST /api/products", header, now), DB,
        ProductController_createProduct(DB, body))

ReqUpdateProduct(header, id, body) ==
  Serve(RouteGate("PUT /api/products/:id", header, now), DB,
        ProductController_updateProduct(DB, id, body))

ReqDeleteProduct(header, id) ==
  Serve(RouteGate("DELETE /api/products/:id", header, now), DB,
        ProductController_deleteProduct(DB, id))

ReqUpdateStock(header, id, body) ==
  Serve(RouteGate("PATCH /api/products/:id/stock", header, now), DB,
        ProductController_updateStock(DB, id, body))

\* a request that does not hand out a token
Answer(r) ==
  /\ Commit(r)
  /\ UNCHANGED tokens

CreateRole(header, body) ==
  /\ CanGenerateId(roles)
  /\ Answer(ReqCreateRole(header, body))

UpdateRole(header, id, body) == Answer(ReqUpdateRole(header, id, body))

DeleteRole(header, id) == Answer(ReqDeleteRole(header, id))

AssignRole(header, body) ==
  /\ CanGenerateId(user_roles)
  /\ Answer(ReqAssignRole(header, body))

RemoveRole(header, body) == Answer(ReqRemoveRole(header, body))

CreateProduct(header, body) ==
  /\ CanGenerateId(products)
  /\ Answer(ReqCreateProduct(header, body))

UpdateProduct(header, id, body) == Answer(ReqUpdateProduct(header, id, body))

DeleteProduct(header, id) == Answer(ReqDeleteProduct(header, id))

UpdateStock(header, id, body) == Answer(ReqUpdateStock(header, id, body))

NextAdmin ==
  \/ \E body \in AdminLoginBodies : Login(body)
  \/ \E header \in AdminHeaders, body \in CreateRoleBodies : CreateRole(header, body)
  \/ \E header \in AdminHeaders, id \in RoleIds, body \in UpdateRoleBodies :
        UpdateRole(header, id, body)
  \/ \E header \in AdminHeaders, id \in RoleIds : DeleteRole(header, id)
  \/ \E header \in AdminHeaders, body \in AssignRoleBodies : AssignRole(header, body)
  \/ \E header \in AdminHeaders, body \in AssignRoleBodies : RemoveRole(header, body)
  \/ \E header \in AdminHeaders, body \in CreateProductBodies : CreateProduct(header, body)
  \/ \E header \in AdminHeaders, id \in ProductIds, body \in UpdateProductBodies :
        UpdateProduct(header, id, body)
  \/ \E header \in AdminHeaders, id \in ProductIds : DeleteProduct(header, id)
  \/ \E header \in AdminHeaders, id \in ProductIds, body \in StockBodies :
        UpdateStock(header, id, body)

SpecAdmin == Init /\ [][NextAdmin]_vars

----------------------------------------------------------------------------
(* Stock keeping: the product write routes with every shape of body, and   *)
(* ProductService.reduceStock, which no route calls, as a service call     *)

StockQuantities     == -1..2
Flags               == {TRUE, FALSE}
ReduceAmounts       == {1, 3}
StockProductIds     == {1, 2}
NewProductBodies    == [sku : {"s1", "s2"}, stockQuantity : StockQuantities]
ChangeProductBodies ==
  {[stockQuantity |-> q] : q \in StockQuantities}
    \cup {[inStock |-> b] : b \in Flags}
    \cup {[stockQuantity |-> q, inStock |-> b] : q \in StockQuantities, b \in Flags}
QuantityBodies      == [quantity : StockQuantities]

ReduceStock(id, amount) == Answer(Served(TRUE, reduceStock(DB, id, amount)))

NextStock ==
  \/ \E body \in AdminLoginBodies : Login(body)
  \/ \E header \in AdminHeaders, body \in NewProductBodies : CreateProduct(header, body)
  \/ \E header \in AdminHeaders, id \in StockProductIds, body \in ChangeProductBodies :
        UpdateProduct(header, id, body)
  \/ \E header \in AdminHeaders, id \in StockProductIds : DeleteProduct(header, id)
  \/ \E header \in AdminHeaders, id \in StockProductIds, body \in QuantityBodies :
        UpdateStock(header, id, body)
  \/ \E id \in StockProductIds, amount \in ReduceAmounts : ReduceStock(id, amount)

SpecStock == Init /\ [][NextStock]_vars

----------------------------------------------------------------------------
(* Uploads: FileService.uploadFile with every kind of file and of outcome  *)
(* of the file system calls, while the admin signs in, creates products    *)
(* and deletes users                                                       *)

FileSizes  == {1, MaxFileSize + 1}
FileNames  == {"a.png", "a.PNG", "a.exe", "readme"}
MimeTypes  == {"image/png", ""}
Uploaders  == {0, 2}

UploadFile(size, originalName, mimeType, uploadedBy, writeOk, unlinkOk) ==
  /\ Cardinality(disk) < MaxFiles
  /\ CanGenerateId(files)
  /\ Answer(Served(TRUE, uploadFile(DB, size, originalName, mimeType, uploadedBy,
                                    writeOk, unlinkOk)))

NextFiles ==
  \/ \E body \in AdminLoginBodies : Login(body)
  \/ \E size \in FileSizes, originalName \in FileNames, mimeType \in MimeTypes,
        uploadedBy \in Uploaders, writeOk \in BOOLEAN, unlinkOk \in BOOLEAN :
        UploadFile(size, originalName, mimeType, uploadedBy, writeOk, unlinkOk)
  \/ \E header \in AdminHeaders, body \in CreateProductBodies : CreateProduct(header, body)
  \/ \E header \in AdminHeaders, id \in UserIds : DeleteUser(header, id)

SpecFiles == Init /\ [][NextFiles]_vars

----------------------------------------------------------------------------
(* Start-up: the database file is new, or was provisioned with the default *)
(* roles and the admin account; the application is started (again) with a  *)
(* configured admin email, and the admin signs in and manages the account  *)

AdminEmails == {"a@x", "A@x"}
BootUserIds == {1}

EmptyStore ==
  /\ users = {} /\ roles = {} /\ user_roles = {} /\ products = {}
  /\ files = {} /\ disk = {}

ProvisionedStore ==
  /\ users = {[id |-> 1, email |-> "a@x", passwordHash |-> Hash(AdminPassword),
               isActive |-> TRUE, lastLogin |-> 0]}
  /\ roles = {[id |-> 1, name |-> "admin"], [id |-> 2, name |-> "user"],
              [id |-> 3, name |-> "moderator"]}
  /\ user_roles = {[id |-> 1, userId |-> 1, roleId |-> 1, assignedBy |-> 1]}
  /\ products = {}
  /\ files = {} /\ disk = {}

InitBoot ==
  /\ EmptyStore \/ ProvisionedStore
  /\ tokens = {}
  /\ now = 1
  /\ last = Err(0, "")
  /\ creating = [p \in Creators |-> Idle]

\* the rows initialize may have to add have identifiers left
CanInitialize ==
  /\ Cardinality(roles) + Cardinality({i \in DOMAIN DefaultRoles :
         \A r \in roles : r.name # DefaultRoles[i]}) <= MaxRows
  /\ CanGenerateId(users)
  /\ CanGenerateId(user_roles)

Initialize(adminEmail, enableAdminBootstrap) ==
  /\ CanInitialize
  /\ Answer(Served(TRUE, initialize(DB, adminEmail, enableAdminBootstrap)))

NextBoot ==
  \/ \E adminEmail \in AdminEmails, enabled \in BOOLEAN : Initialize(adminEmail, enabled)
  \/ \E body \in LoginBodies : Login(body)
  \/ \E header \in AdminHeaders, id \in BootUserIds, body \in UpdateUserBodies :
        UpdateUser(header, id, body)
  \/ \E header \in AdminHeaders, id \in BootUserIds : DeleteUser(header, id)
  \/ Tick

SpecBoot == InitBoot /\ [][NextBoot]_vars

----------------------------------------------------------------------------
(* Requests in flight: POST /api/users is split where UserService.create   *)
(* first awaits the store, so that a second request can run between the    *)
(* existence check and the rest.  Each statement the sqlite3 handle is     *)
(* given runs alone.                                                       *)

Stored(db) ==
  /\ users' = db.users
  /\ roles' = db.roles
  /\ user_roles' = db.user_roles
  /\ products' = db.products
  /\ files' = db.files
  /\ disk' = db.disk

\* the preHandlers, the validation and findByEmail; a request that is refused
\* is answered here, the others wait for their turn to go on
CreateUserArrives(p, header, body) ==
  LET r == Serve(RouteGate("POST /api/users", header, now), DB,
                 UserController_createUser_findByEmail(DB, body))
  IN /\ creating[p].stage = "idle"
     /\ Stored(r.db)
     /\ last' = IF IsOk(r.err) THEN last ELSE r.err
     /\ creating' = [creating EXCEPT ![p] =
                       [stage |-> IF IsOk(r.err) THEN "checked" ELSE "refused",
                        body |-> body]]
     /\ UNCHANGED <<tokens, now>>

\* findByUsername, the hash, the INSERT and the reply
CreateUserResumes(p) ==
  LET r == UserController_createUser_resumed(DB, creating[p].body)
  IN /\ creating[p].stage = "checked"
     /\ Stored(r.db)
     /\ last' = r.err
     /\ creating' = [creating EXCEPT ![p].stage =
                       IF r.err.code = 201 THEN "created" ELSE "failed"]
     /\ UNCHANGED <<tokens, now>>

NextRace ==
  \/ \E body \in AdminLoginBodies : Login(body)
  \/ \E p \in Creators, header \in AdminHeaders, body \in CreateUserBodies :
        CreateUserArrives(p, header, body)
  \/ \E p \in Creators : CreateUserResumes(p)
  \/ \E header \in AdminHeaders, id \in UserIds, body \in UpdateUserBodies :
        UpdateUser(header, id, body)

SpecRace == Init /\ [][NextRace]_vars

----------------------------------------------------------------------------
(* Properties of user creation and login *)

SameEmail(a, b) == toLowerCase(a) = toLowerCase(b)

\* C1: UserService.create with an email that equals, ignoring letter case,
\* the email of a stored user fails with a Validation (400) error and adds
\* no user row, whatever the other fields are.
C1_DuplicateEmailIsValidation ==
  \A dto \in CreateUserBodies :
    (\E u \in users : SameEmail(dto.email, u.email)) =>
      LET r == UserService_create(DB, dto)
      IN r.err.code = 400 /\ r.db.users = users

\* C2: for every stored user whose isActive is false, login with that user's
\* email and correct password fails with Unauthorized, returns no token and
\* leaves the user's lastLogin (the whole users table) unchanged.
C2_DeactivatedCannotLogin ==
  \A u \in users : \A dto \in LoginBodies :
    (~u.isActive /\ SameEmail(dto.email, u.email) /\ Compare(dto.password, u.passwordHash)) =>
      LET r == login(DB, dto, now)
      IN r.err.code = 401 /\ r.out = NoToken /\ r.db.users = users

\* a login of a deactivated user has just been answered
C2_Witness ==
  /\ last = UnauthorizedError("Account is deactivated")
  /\ \E u \in users : ~u.isActive /\ Compare("secret1", u.passwordHash)

----------------------------------------------------------------------------
(* Properties of tokens *)

\* the stored user a token names, by its id
Named(token) == {u \in users : u.id = token.id}

AuthGatedRoutes ==
  {"POST /api/auth/refresh", "PUT /api/users/:id", "PUT /api/users/me/profile"}

\* C3: after a user has been deactivated, every later request to an
\* auth-gated route presenting a not yet expired token issued to that user is
\* rejected by the auth gate before the handler runs.
C3_DeactivatedTokenStopsAtGate ==
  \A tok \in tokens :
    (verify(tok, now) = "ok" /\ \E u \in Named(tok) : ~u.isActive) =>
      /\ \A route \in AuthGatedRoutes : ~IsOk(RouteGate(route, Bearer(tok), now).err)
      /\ \A body \in UpdateUserBodies : ~ReqUpdateProfile(Bearer(tok), body).ran

\* C4: validateToken (and so refreshToken), given a correctly signed,
\* unexpired token, answers Unauthorized whenever the user the token names
\* has been deleted or is inactive, and returns the payload only when that
\* user exists and is active.
C4_ValidateTokenChecksNamedUser ==
  \A tok \in tokens :
    verify(tok, now) = "ok" =>
      LET live == \E u \in Named(tok) : u.isActive
          v == validateToken(DB, tok, now)
          r == refreshToken(DB, tok, now)
      IN /\ ~live => v.err.code = 401 /\ v.out = NoToken
         /\ ~live => r.err.code = 401 /\ r.out = NoToken
         /\ IsOk(v.err) => live /\ v.out = tok

\* C5: verification answers an expired token with 'Token has expired', a
\* kind distinct from the 'Invalid token' of a malformed or badly signed
\* one; an expired token is never reported as 'Invalid token'.
C5_ExpiredIsNotInvalid ==
  /\ \A tok \in tokens :
       verify(tok, now) = "TokenExpiredError" =>
         /\ validateToken(DB, tok, now).err = UnauthorizedError("Token has expired")
         /\ createAuthMiddleware(Bearer(tok), now).err = UnauthorizedError("Token has expired")
  /\ validateToken(DB, Forged, now).err = UnauthorizedError("Invalid token")
  /\ createAuthMiddleware(Bearer(Forged), now).err = UnauthorizedError("Invalid token")

----------------------------------------------------------------------------
(* Properties of registration *)

\* the header presents a valid token of a stored user who holds the admin role
AdminCaller(header) ==
  /\ header.scheme # "none"
  /\ verify(ExtractToken(header), now) = "ok"
  /\ Named(ExtractToken(header)) # {}
  /\ userHasRole(DB, ExtractToken(header).id, "admin")

FreshEmail(email) == \A u \in users : ~SameEmail(email, u.email)

\* C8: a registration with a non-empty roles list from a caller who is not
\* an authenticated holder of the admin role is rejected (Unauthorized when
\* the body itself is valid) and creates no user row and no role assignment.
C8_RolesNeedAdminCaller ==
  \A body \in RegisterBodies :
    Len(body.roles) > 0 =>
      /\ \A header \in Headers :
           ~AdminCaller(header) =>
             LET r == ReqRegister(header, body)
             IN /\ ~IsOk(r.err)
                /\ validateRegisterDto(body) => r.err.code = 401
                /\ r.out = NoToken
                /\ r.db.users = users
                /\ r.db.user_roles = user_roles
      /\ \A requestingUserId \in {0} \cup UserIds :
           ~userHasRole(DB, requestingUserId, "admin") =>
             LET r == register(DB, body, requestingUserId, now)
             IN /\ r.err.code = 401
                /\ r.out = NoToken
                /\ r.db.users = users
                /\ r.db.user_roles = user_roles

\* a registration asking for roles has just been refused
C8_Witness ==
  /\ last = UnauthorizedError("Authentication required to assign roles")
  /\ \E header \in Headers : ~AdminCaller(header)

\* C9: POST /api/auth/register with a non-empty roles list, sent with a
\* valid token of a user holding the admin role, succeeds: the new user is
\* created and is assigned every requested role that exists, with the admin
\* caller recorded as assigner.
C9_AdminRegistersWithRoles ==
  \A header \in Headers : \A body \in RegisterBodies :
    (/\ Len(body.roles) > 0
     /\ validateRegisterDto(body)
     /\ FreshEmail(body.email)
     /\ CanGenerateId(users)
     /\ AdminCaller(header)) =>
      LET r == ReqRegister(header, body)
          made == {u \in r.db.users : SameEmail(u.email, body.email)}
      IN /\ IsOk(r.err)
         /\ Cardinality(made) = 1
         /\ \A u \in made :
              \A i \in 1..Len(body.roles) :
                \A role \in roles :
                  role.name = toLowerCase(body.roles[i]) =>
                    \E ur \in r.db.user_roles :
                      /\ ur.userId = u.id
                      /\ ur.roleId = role.id
                      /\ ur.assignedBy = ExtractToken(header).id

\* C10: a registration with a fresh email, valid names and password and no
\* roles list succeeds and leaves exactly one new user, who holds exactly
\* the configured default role, assigned by that user itself; the returned
\* token embeds that user's id, email and that role name.
C10_RegisterSelfAssignsDefaultRole ==
  \A header \in Headers : \A body \in RegisterBodies :
    (/\ body.roles = <<>>
     /\ validateRegisterDto(body)
     /\ FreshEmail(body.email)
     /\ CanGenerateId(users)
     /\ CanGenerateId(user_roles)
     /\ \E role \in roles : role.name = DefaultUserRole) =>
      LET r == ReqRegister(header, body)
          made == r.db.users \ users
      IN /\ IsOk(r.err)
         /\ Cardinality(made) = 1
         /\ \A u \in made :
              /\ SameEmail(u.email, body.email)
              /\ {role.name : role \in getUserRoles(r.db, u.id)} = {DefaultUserRole}
              /\ \A ur \in r.db.user_roles : ur.userId = u.id => ur.assignedBy = u.id
              /\ r.out.id = u.id
              /\ r.out.email = u.email
              /\ r.out.roles = {DefaultUserRole}

----------------------------------------------------------------------------
(* Properties of the role gate *)

RequiredRoleSets == SUBSET {"admin", "Admin", "user", "User", "ops"} \ {{}}

\* the header presents a valid token that embeds the admin role
HoldsAdminToken(header) ==
  /\ header.scheme # "none"
  /\ verify(ExtractToken(header), now) = "ok"
  /\ "admin" \in ExtractToken(header).roles

Outcome(r) == [ran |-> r.ran, err |-> r.err, db |-> r.db]

\* every request to a role route or a product write route with this header
AdminRequests(header) ==
  {Outcome(ReqCreateRole(header, body)) : body \in CreateRoleBodies}
    \cup {Outcome(ReqUpdateRole(header, id, body)) : id \in RoleIds, body \in UpdateRoleBodies}
    \cup {Outcome(ReqDeleteRole(header, id)) : id \in RoleIds}
    \cup {Outcome(ReqAssignRole(header, body)) : body \in AssignRoleBodies}
    \cup {Outcome(ReqRemoveRole(header, body)) : body \in AssignRoleBodies}
    \cup {Outcome(ReqCreateProduct(header, body)) : body \in CreateProductBodies}
    \cup {Outcome(ReqUpdateProduct(header, id, body)) : id \in ProductIds, body \in UpdateProductBodies}
    \cup {Outcome(ReqDeleteProduct(header, id)) : id \in ProductIds}
    \cup {Outcome(ReqUpdateStock(header, id, body)) : id \in ProductIds, body \in StockBodies}

\* C7: on the role routes and the product write routes the handler's
\* service call runs only when the request carried a valid token whose
\* embedded roles include 'admin'; a request rejected by the gate leaves the
\* roles, user_roles and products collections unchanged.
C7_AdminRoutesRunOnlyForAdmin ==
  \A header \in Headers :
    /\ \A route \in RoleRoutes \cup ProductWriteRoutes :
         IsOk(RouteGate(route, header, now).err) => HoldsAdminToken(header)
    /\ \A r \in AdminRequests(header) :
         /\ r.ran => HoldsAdminToken(header)
         /\ ~r.ran =>
              /\ ~IsOk(r.err)
              /\ r.db.roles = roles
              /\ r.db.user_roles = user_roles
              /\ r.db.products = products

\* a holder of a valid token without the admin role has just been turned
\* away, after an admin had written a product
C7_Witness ==
  /\ last.code = 401
  /\ last.msg = "Access denied"
  /\ products # {}
  /\ \E tok \in tokens : verify(tok, now) = "ok" /\ tok.roles # {} /\ "admin" \notin tok.roles

----------------------------------------------------------------------------
(* Properties of roles and role assignments *)

\* identifiers a service call may be handed: stored ones and one no row carries yet
AnyIds == IdPool

Assigned(userId, roleId) == {ur \in user_roles : ur.userId = userId /\ ur.roleId = roleId}

Exists(rows, id) == \E r \in rows : r.id = id

C12_AssignNeedsUserRoleAssigner ==
  \A userId \in AnyIds, roleId \in AnyIds, assignedBy \in AnyIds :
    LET r == assignRoleToUser(DB, userId, roleId, assignedBy)
        allExist == Exists(users, userId) /\ Exists(roles, roleId) /\ Exists(users, assignedBy)
    IN /\ ~allExist => (r.err.code = 404 /\ r.db = DB)
       /\ r.db.user_roles # user_roles => allExist

\* an assignment has just been made by a request of user 1, while a role and a
\* user that a further call could name are absent
C12_Witness ==
  /\ last = Err(201, "Role assigned successfully")
  /\ \E ur \in user_roles : ur.userId = 2 /\ ur.assignedBy = 1
  /\ \E roleId \in AnyIds : ~Exists(roles, roleId)
  /\ \E userId \in AnyIds : ~Exists(users, userId)

\* the user_roles rows that reference a role
Referencing(roleId) == {ur \in user_roles : ur.roleId = roleId}

\* C13: deleteRole on a role referenced by at least one user_roles row fails
\* with a Validation (400) error whose message reports the number of
\* referencing rows, and the role row and all user_roles rows are unchanged.
C13_ReferencedRoleIsKept ==
  \A role \in roles :
    Referencing(role.id) # {} =>
      LET r == deleteRole(DB, role.id)
      IN /\ r.err = ValidationError(RoleInUse(role.name, Cardinality(Referencing(role.id))))
         /\ r.db.roles = roles
         /\ r.db.user_roles = user_roles

\* a request to delete role 2 has just been refused while two users hold it
C13_Witness ==
  /\ \E role \in roles :
       /\ role.id = 2
       /\ last = ValidationError(RoleInUse(role.name, 2))
  /\ Cardinality(Referencing(2)) = 2

SameName(a, b) == toLowerCase(a) = toLowerCase(b)

\* names a create or rename call may carry
NameInputs == RoleNames \cup {"User", "user"}

\* C14: createRole, or updateRole, with a name that equals, ignoring letter
\* case, the name of a different existing role fails with a Validation (400)
\* error and leaves roles unchanged; and no two stored roles have names that
\* are equal ignoring case.
C14_RoleNamesUniqueIgnoringCase ==
  /\ \A name \in NameInputs :
       (\E o \in roles : SameName(o.name, name)) =>
         LET r == createRole(DB, name)
         IN r.err.code = 400 /\ r.db.roles = roles
  /\ \A role \in roles, name \in NameInputs :
       (\E o \in roles : o.id # role.id /\ SameName(o.name, name)) =>
         LET r == updateRole(DB, role.id, name)
         IN r.err.code = 400 /\ r.db.roles = roles
  /\ \A a \in roles, b \in roles : SameName(a.name, b.name) => a = b

----------------------------------------------------------------------------
(* Properties of the stock flag *)

\* C15: for every ProductService.update whose data contains stockQuantity q,
\* the stored and the returned product have inStock = (q > 0), also when the
\* same data carries a contradicting inStock.
C15_UpdateRecomputesInStock ==
  \A id \in StockProductIds, dto \in ChangeProductBodies :
    Has(dto, "stockQuantity") =>
      LET r == ProductService_update(DB, id, dto)
      IN IsOk(r.err) =>
           /\ r.out # {}
           /\ \A p \in r.out : p.inStock = (dto.stockQuantity > 0)
           /\ \A p \in findById(r.db, "products", id) :
                p.stockQuantity = dto.stockQuantity /\ p.inStock = (dto.stockQuantity > 0)

\* an update has just been answered for a product that is in stock, for which
\* a further update may carry a quantity of 0 together with inStock true
C15_Witness ==
  /\ last = Err(200, "Product updated successfully")
  /\ \E p \in products : p.stockQuantity = 2 /\ p.inStock
  /\ [stockQuantity |-> 0, inStock |-> TRUE] \in ChangeProductBodies

\* C16: in every state reachable by product create, update, updateStock and
\* reduceStock requests that pass the DTO validators, each stored product
\* satisfies inStock = (stockQuantity > 0).
C16_InStockFollowsQuantity ==
  \A p \in products : p.inStock = (p.stockQuantity > 0)

----------------------------------------------------------------------------
(* Properties of the storage layer *)

Entities == {"users", "roles", "user_roles", "products", "files"}

\* the data the services hand to DatabaseService.create for each entity, with
\* every column of the entity given
EntityData(collection, t) ==
  CASE collection = "users" ->
         {[email |-> Str("c@x"), firstName |-> Str("first"), lastName |-> Str("last"),
           passwordHash |-> Str("hash"), isActive |-> Bool(b), lastLogin |-> DateAt(t)]
            : b \in BOOLEAN}
    [] collection = "roles" ->
         {[name |-> Str("ops"), description |-> Str("text")]}
    [] collection = "user_roles" ->
         {[userId |-> Str("u"), roleId |-> Str("r"), assignedAt |-> DateAt(t),
           assignedBy |-> Str("a")]}
    [] collection = "products" ->
         {[name |-> Str("name"), description |-> Str("text"), price |-> Num(1),
           category |-> Str("cat"), sku |-> Str("s1"), stockQuantity |-> Num(q),
           inStock |-> Bool(q > 0), imageUrl |-> Str("url")] : q \in 0..1}
    [] collection = "files" ->
         {[originalName |-> Str("a.txt"), filename |-> Str("1_a.txt"),
           mimeType |-> Str("text/plain"), size |-> Num(1), path |-> Str("uploads/1_a.txt"),
           uploadedBy |-> Str("u")]}

\* C17: for every entity (user, role, user-role, product, file) the value
\* DatabaseService.create returns equals, field by field and with the same
\* kind of value, the value findById returns for the created id right after.
C17_CreateThenFindByIdAgree ==
  \A collection \in Entities : \A data \in EntityData(collection, now) :
    LET item == NewItem(data, Str("id"), now)
    IN FoundById(collection, item) = item

Collections == {"users", "roles", "user_roles", "products"}

\* C18: DatabaseService.delete(collection, id) returns true exactly when a row
\* with that id existed before the call and false otherwise; in both cases no
\* row with that id exists afterwards and every other row is unchanged.
C18_DeleteAnswersWhetherRowExisted ==
  \A collection \in Collections, id \in IdPool :
    LET r == delete(DB, collection, id)
    IN /\ r.out = Exists(DB[collection], id)
       /\ ~Exists(r.db[collection], id)
       /\ r.db[collection] = {row \in DB[collection] : row.id # id}
       /\ \A other \in Collections \ {collection} : r.db[other] = DB[other]

----------------------------------------------------------------------------
(* Properties of the start-up *)

RoleNamesOf(db) == {r.name : r \in db.roles}

\* the users of db with that email who hold the admin role
AdminsWith(db, email) ==
  {u \in db.users : u.email = email /\ \E ur \in db.user_roles, r \in db.roles :
      ur.userId = u.id /\ ur.roleId = r.id /\ r.name = "admin"}

\* what a completed first start-up is to leave for the configured email, the
\* account's email being stored as UserService.create writes it (lower-cased)
BootstrappedFor(db, adminEmail) ==
  /\ RoleNamesOf(db) = {"admin", "user", "moderator"}
  /\ Cardinality(db.users) = 1
  /\ AdminsWith(db, toLowerCase(adminEmail)) = db.users

\* C19: from a store with no roles and no users, with admin bootstrap
\* enabled, initialize completes without error and leaves exactly the roles
\* admin, user and moderator plus one user with the configured admin email
\* who holds the admin role.
C19_BootstrapFromEmptyStore ==
  (users = {} /\ roles = {}) =>
    \A adminEmail \in AdminEmails :
      LET r == initialize(DB, adminEmail, TRUE)
      IN IsOk(r.err) /\ BootstrappedFor(r.db, adminEmail)

----------------------------------------------------------------------------
(* Properties of uploads *)

FileExtension(originalName) == substring1(toLowerCase(extname(originalName)))

\* the configured allow-list, as a set
Allowed == {AllowedFileTypes[i] : i \in DOMAIN AllowedFileTypes}

\* C21: uploadFile with a file name whose extension is not in the allow-list,
\* or with data larger than the configured maximum, fails with a Validation
\* (400) error, and neither the uploads directory nor the files table has
\* changed: nothing is written before the rejection, whatever the file
\* system would have answered.
C21_RejectedUploadWritesNothing ==
  \A size \in FileSizes, originalName \in FileNames, mimeType \in MimeTypes,
     uploadedBy \in Uploaders, writeOk \in BOOLEAN, unlinkOk \in BOOLEAN :
    (FileExtension(originalName) \notin Allowed \/ size > MaxFileSize) =>
      LET r == uploadFile(DB, size, originalName, mimeType, uploadedBy, writeOk, unlinkOk)
      IN r.err.code = 400 /\ r.db = DB

\* an upload of a file of type exe has just been refused while the directory
\* holds an earlier upload
C21_Witness ==
  /\ last.code = 400
  /\ last.msg = "File type 'exe' is not allowed. Allowed types: " \o join(AllowedFileTypes, ", ")
  /\ disk # {}

\* C22: in uploadFile the disk write precedes the metadata insert; when the
\* insert fails after the write, the written file is removed, no files row
\* exists for it and the caller receives the insert's error; when the removal
\* fails too the caller still receives the insert's error (the written file
\* is then still in the directory, which shows the write came first).
C22_FailedInsertCleansUp ==
  \A originalName \in FileNames, uploadedBy \in Uploaders, unlinkOk \in BOOLEAN :
    FileExtension(originalName) \in Allowed =>
      LET r == uploadFile(DB, 1, originalName, "", uploadedBy, TRUE, unlinkOk)
          filename == generateFilename(DB, originalName)
      IN /\ r.err = NotNullFailed
         /\ r.db.files = files
         /\ r.db.disk = IF unlinkOk THEN disk ELSE disk \cup {filename}
         /\ filename \notin disk

\* an upload whose insert failed has just been answered with the insert's
\* error; one such upload was cleaned up and one left its file behind
C22_Witness ==
  /\ last = NotNullFailed
  /\ Cardinality(disk) = 1
  /\ files = {}

----------------------------------------------------------------------------
(* Properties of the replies *)

\* C23: for an error that carries no status class (a storage error), the
\* response has status 500 and no field of the envelope contains the original
\* error's message; the caller sees only 'Internal Server Error'.
C23_UnclassifiedErrorIsOpaque ==
  last.code = 500 =>
    LET reply == createErrorHandler(last)
    IN /\ reply.statusCode = 500
       /\ reply.message = "Internal Server Error"
       /\ reply.error # last.msg

----------------------------------------------------------------------------
(* Properties of what the services hand back *)

Secret(value) == DOMAIN value \cap {"passwordHash", "password"} # {}

NewPasswordBodies == {[password |-> "newpass1"]}

\* C24: no value returned by UserService.findAll, findById, create or
\* update, by RoleService.getUsersByRole or getUserWithRoles, or inside an
\* AuthService login, register or refresh response holds the passwordHash
\* field or the raw password.
C24_NoReturnedValueHoldsPasswordHash ==
  /\ \A u \in UserService_findAll(DB) : ~Secret(u)
  /\ \A id \in AnyIds : \A u \in UserService_findById(DB, id).out : ~Secret(u)
  /\ \A dto \in CreateUserBodies :
       LET r == UserService_create(DB, dto)
       IN IsOk(r.err) => ~Secret(r.out)
  /\ \A id \in AnyIds, dto \in UpdateUserBodies \cup NewPasswordBodies :
       \A u \in UserService_update(DB, id, dto).out : ~Secret(u)
  /\ \A roleId \in AnyIds : \A u \in getUsersByRole(DB, roleId).out : ~Secret(u)
  /\ \A userId \in AnyIds : \A u \in getUserWithRoles(DB, userId).out : ~Secret(u)
  /\ \A dto \in LoginBodies :
       LET r == login(DB, dto, now)
           response == AuthResponse(r.db, r.out)
       IN IsOk(r.err) => /\ ~Secret(response)
                         /\ ~Secret(response.accessToken)
                         /\ response.user # {}
                         /\ \A u \in response.user : ~Secret(u)
  /\ \A tok \in tokens :
       LET r == refreshToken(DB, tok, now)
           response == AuthResponse(r.db, r.out)
       IN IsOk(r.err) => /\ ~Secret(response)
                         /\ ~Secret(response.accessToken)
                         /\ \A u \in response.user : ~Secret(u)
  /\ \A dto \in RegisterBodies, requestingUserId \in {0} \cup UserIds :
       LET r == register(DB, dto, requestingUserId, now)
           response == AuthResponse(r.db, r.out)
       IN IsOk(r.err) => /\ ~Secret(response)
                         /\ ~Secret(response.accessToken)
                         /\ \A u \in response.user : ~Secret(u)

\* a login has answered with a token while every stored row holds its hash,
\* and a user has been updated
C24_Witness ==
  /\ last = Err(200, "Login successful")
  /\ tokens # {}
  /\ users # {}
  /\ \A u \in users : Secret(u)
  /\ \E u \in users : u.lastLogin > 0

----------------------------------------------------------------------------
(* Properties of the user update routes *)

Forbidden == Err(403, "Forbidden: You can only update your own profile")

\* C25: a PUT /api/users/:id request from an authenticated caller who does
\* not hold the admin role and whose id differs from :id is answered with 403
\* and leaves the target user unchanged; the update is applied only when the
\* caller is the target user or holds the admin role.
C25_UpdateUserNeedsOwnerOrAdmin ==
  \A header \in Headers, id \in UserIds, body \in UpdateUserBodies :
    LET g == RouteGate("PUT /api/users/:id", header, now)
        caller == Caller(g.user)
        r == ReqUpdateUser(header, id, body)
    IN /\ (IsOk(g.err) /\ caller.id # id /\ ~userHasRole(DB, caller.id, "admin"))
            => (r.err = Forbidden /\ r.db = DB)
       /\ r.db # DB
            => (IsOk(g.err) /\ (caller.id = id \/ userHasRole(DB, caller.id, "admin")))

\* the caller has updated their own record, and a request for someone else's
\* has been refused
C25_Witness ==
  /\ last = Forbidden
  /\ \E u \in users : u.id = 2 /\ ~u.isActive
  /\ \E tok \in tokens : tok.id = 2 /\ "admin" \notin tok.roles /\ verify(tok, now) = "ok"

----------------------------------------------------------------------------
(* Properties of concurrent user creation *)

\* the requests that went past the existence check and have been answered
PassedCheck == {p \in Creators : creating[p].stage \in {"created", "failed"}}

RowsWithEmail(email) == {u \in users : u.email = toLowerCase(email)}

----------------------------------------------------------------------------
(* Properties of the roles a token carries *)

Times == 0..(MaxTime + JwtExpiresIn)

RequiredRoles == {"admin", "user", "ops", "Admin"}

CurrentRoles(userId) == {r.name : r \in getUserRoles(DB, userId)}

\* C27: a token issued while the user held a role keeps passing requireRoles
\* for that role after the role has been removed from the user, until the
\* token expires; a role assigned after issue is not honoured by that token;
\* only a newly issued token (login or refresh) reflects the user's current
\* roles.
C27_TokenCarriesRolesOfIssue ==
  /\ \A tok \in tokens, role \in RequiredRoles, t \in Times :
       LET g == RunHooks(<<AuthHook, Hook("requireRoles", {role})>>, Bearer(tok), t, {})
       IN IsOk(g.err) <=> (t < tok.exp /\ toLowerCase(role) \in tok.roles)
  /\ \A dto \in AdminLoginBodies :
       LET r == login(DB, dto, now)
       IN IsOk(r.err) => r.out.roles = CurrentRoles(r.out.id)
  /\ \A tok \in tokens :
       LET r == refreshToken(DB, tok, now)
       IN IsOk(r.err) => r.out.roles = CurrentRoles(tok.id)

\* user 2 holds a token that names a role the store no longer assigns to
\* them, and the store assigns them a role the token does not name
C27_Witness ==
  \E tok \in tokens :
    /\ tok.id = 2
    /\ verify(tok, now) = "ok"
    /\ tok.roles \ CurrentRoles(2) # {}
    /\ CurrentRoles(2) \ tok.roles # {}

----------------------------------------------------------------------------
(* Properties of the isActive flag *)

IsActiveOf(db, id) == {u.isActive : u \in findById(db, "users", id)}

\* C28: a caller who does not hold the admin role cannot change the isActive
\* flag of their own user record through any user update route
\* (PUT /api/users/me/profile or PUT /api/users/:id); in particular a
\* deactivated non-admin user cannot reactivate themselves.
C28_NonAdminCannotChangeOwnIsActive ==
  \A header \in Headers, body \in UpdateUserBodies :
    LET profile == RouteGate("PUT /api/users/me/profile", header, now)
        byId == RouteGate("PUT /api/users/:id", header, now)
    IN /\ (IsOk(profile.err) /\ ~userHasRole(DB, Caller(profile.user).id, "admin"))
            => IsActiveOf(ReqUpdateProfile(header, body).db, Caller(profile.user).id)
                 = IsActiveOf(DB, Caller(profile.user).id)
       /\ (IsOk(byId.err) /\ ~userHasRole(DB, Caller(byId.user).id, "admin"))
            => IsActiveOf(ReqUpdateUser(header, Caller(byId.user).id, body).db,
                          Caller(byId.user).id)
                 = IsActiveOf(DB, Caller(byId.user).id)

----------------------------------------------------------------------------
(* Properties of deleting a user *)

\* C29: UserService.delete removes only the users row with the given id:
\* every row of the files and products collections, including files whose
\* uploadedBy is the deleted user, is unchanged afterwards.
C29_DeleteUserRemovesOnlyTheUserRow ==
  \A id \in AnyIds :
    LET r == UserService_delete(DB, id)
    IN /\ r.db.users = {u \in users : u.id # id}
       /\ r.db.files = files
       /\ r.db.products = products
       /\ r.db.disk = disk
       /\ r.db.roles = roles
       /\ r.db.user_roles = user_roles

\* user 2 has been deleted; a file they uploaded and a product are stored
C29_Witness ==
  /\ findById(DB, "users", 2) = {}
  /\ \E f \in files : f.uploadedBy = 2
  /\ products # {}
  /\ last.code = 404

----------------------------------------------------------------------------
(* Properties of the references user_roles holds *)

\* the roles that are assigned, and only to users that are no longer stored
RolesOfDeletedUsersOnly ==
  {role \in roles : /\ \E ur \in user_roles : ur.roleId = role.id
                    /\ \A ur \in user_roles : ur.roleId = role.id => ~Exists(users, ur.userId)}

\* C30: in every state reachable by any sequence of user, role and
\* assignment operations executed one at a time, each user_roles row
\* references an existing role and an existing user, so a role whose only
\* assignees have been deleted can be deleted.
C30_AssignmentsReferenceStoredRows ==
  /\ \A ur \in user_roles : Exists(roles, ur.roleId) /\ Exists(users, ur.userId)
  /\ \A role \in RolesOfDeletedUsersOnly :
       LET r == deleteRole(DB, role.id)
       IN IsOk(r.err) /\ r.db.roles = roles \ {role}

====
